---- MODULE Spec2Model ----
(***************************************************************************)
(* A model of the go-datadog metrics library: the reporter's registry      *)
(* (reporter.go), the atomic counters (counter part of timer.go) and the   *)
(* reservoir samples with their snapshots (sample part of timer.go).       *)
(*                                                                         *)
(* Strings are sequences of byte codes, so that sort.Strings and           *)
(* strings.Join are computed as the code computes them.                    *)
(***************************************************************************)
EXTENDS Integers, Sequences, FiniteSets, TLC

VARIABLES
    \* ---- MetricReporter (reporter.go) ----
    registry,       \* rep.registry: map MetricID -> metric object
    lock,           \* rep.lock: the goroutine holding it, or NoThread
    objs,           \* the metric objects allocated so far: obj -> [name, tags]
    th,             \* per goroutine: position and locals of its current call
    fallbackCalls,  \* history: per MetricID, number of fallback() invocations
    fetchReturned,  \* history: per MetricID, the objects Fetch has returned
    lastRegistered, \* history: per MetricID, the last object Register stored
    nOps,           \* history: number of registry calls started
    \* ---- Counter / FlashCounter (timer.go 603-691) ----
    ctrKind,        \* "Counter" or "FlashCounter"
    count,          \* Counter.count
    fl,             \* per flushing goroutine: position and local `count`
    incSum,         \* history: sum of all Inc amounts
    decSum,         \* history: sum of all Dec amounts
    cleared,        \* history: Counter.Clear has been called
    reported,       \* history: the values returned by completed Flush calls
    nCtrOps,        \* history: number of counter calls started
    \* ---- Sample / SampleSnapshot (timer.go 82-447) ----
    kind,           \* "ExpDecay", "Uniform" or "Flash"
    reservoirSize,  \* s.reservoirSize
    sampleCount,    \* s.count
    heap,           \* ExpDecaySample.values: the min-heap of [k, v]
    values,         \* UniformSample.values: slice header [arr, len]
    store,          \* backing arrays of []int64 slices: array id -> contents
    t0,             \* ExpDecaySample.t0
    t1,             \* ExpDecaySample.t1
    clock,          \* time.Now()
    sn,             \* per snapshotting goroutine: position and locals
    snaps,          \* the SampleSnapshots returned so far: [count, arr, len]
    nUpdates,       \* history: number of Update calls
    nClears,        \* history: number of Clear calls made by callers
    nSnapshots,     \* history: number of Snapshot calls started
    panicked,       \* a call has panicked (index out of range, rand.Intn(0))
    \* ---- EWMA (timer.go 449-517) ----
    uncounted,      \* a.uncounted
    rate,           \* a.rate, as [num, exp]: num / (TickSeconds * AlphaDen^exp)
    init,           \* a.init
    tk,             \* the ticker's position in Tick and its local `count`
    updSum,         \* history: sum of all n passed to Update
    drained,        \* history: sum of the counts the Ticks have drained
    negSeen,        \* history: some Update had n < 0
    nEwUpdates,     \* history: number of Update calls
    nTicks,         \* history: number of Tick calls started
    \* ---- a SampleSnapshot on its own (timer.go 113-224) ----
    ssValues,       \* s.values
    ssGiven,        \* history: the values the snapshot was constructed with
    ssPs,           \* the ps argument of the last Percentiles call
    ssScores,       \* the scores it returned
    ssStats,        \* what Min, Max, Mean, Sum, Variance returned last
    \* ---- Start / Report / Series (reporter.go 29-118), Client.post ----
    rp,             \* the Start goroutine: position and locals of its Report
    tickPending,    \* ticker.C, a channel of capacity 1, holds a tick
    gauge,          \* GaugeF.value of the metric objects (0 when absent)
    atCopy,         \* history: the metrics registered when registered() copied
    flushed,        \* history: the metrics flushed in the current Report
    reportsActive,  \* history: Report calls of the loop in progress
    nFires,         \* history: number of ticker fires
    nReports,       \* history: number of Report calls the loop has started
    nReceived,      \* history: number of ticks the loop has received
    nLogged,        \* history: number of Report errors the loop has logged
    \* ---- tickableArbiter (timer.go 562-601), NewMeter ----
    taLock,         \* the arbiter's embedded sync.Mutex: its holder, or NoThread
    started,        \* ta.started
    metrics,        \* ta.metrics
    ad,             \* per constructing goroutine: position in NewMeter / add
    loops,          \* number of goroutines running ta.loop()
    lp,             \* position of the loop goroutine
    ticked,         \* history: per meter, number of tick() calls
    nMeters,        \* history: number of meters constructed
    nArbTicks,      \* history: number of ticks the loop has handled
    \* ---- NewMetricID on its own (timer.go 553-560) ----
    name1,          \* the name of a first metric
    tags1,          \* its tags slice
    name2,          \* the name of a second metric
    tags2,          \* its tags slice
    given,          \* history: the two tags slices as the callers passed them
    ids,            \* the two MetricIDs, once computed
    \* ---- a Timer and its embedded Meter (timer.go 1-80, part_002) ----
    tmFlash,        \* the timer's sample is a FlashSample
    smCount,        \* t.sample's count
    mCount,         \* m.count
    aUnc,           \* uncounted of m.a1, m.a5, m.a15
    mRates,         \* m.rateMean, m.rate1, m.rate5, m.rate15: the tick that wrote each
    mLock,          \* m.lock: its holder, or NoThread
    tu,             \* per updating goroutine: position in Timer.Update
    tsn,            \* position of the goroutine in Timer.Snapshot
    mt,             \* position of the arbiter in m.tick()
    mf,             \* position and locals of the goroutine in Flush
    emitted,        \* history: the four rates of each completed Flush
    tmCleared,      \* history: Timer.Clear has been called
    nTmUpdates,     \* history: number of Timer.Update calls started
    nTmSnaps,       \* history: number of Timer.Snapshot calls started
    nMTicks,        \* history: number of tick() calls started
    nMFlushes,      \* history: number of Flush calls started
    \* ---- the locks of reporter, arbiter, meters, EWMAs and samples ----
    held,           \* per mutex: the goroutine holding it, or NoThread
    lk,             \* per goroutine: the steps left of its call, and its locals
    lkRegistry,     \* rep.registry: name -> timer
    lkTicking,      \* arbiter.metrics
    nLkTimers,      \* history: number of timers constructed
    nLkCalls,       \* history: number of calls started by users
    nLkPasses,      \* history: number of Series calls, and of arbiter passes, started
    \* ---- Report over a FlashCounter and a FlashSample-backed Histogram ----
    hsCount,        \* the histogram's sample: s.count
    hsValues,       \* the histogram's sample: s.values
    hf,             \* position and locals of Histogram.Flush in Snapshot
    hsnaps,         \* history: the snapshots the Flushes have returned
    outcomes,       \* history: per completed Report, whether it returned an error
    inReport,       \* a Report is in progress
    nFrReports,     \* history: number of Report calls started
    nHsUpdates      \* history: number of Histogram.Update calls

regVars == <<registry, lock, objs, th, fallbackCalls, fetchReturned,
             lastRegistered, nOps>>
ctrVars == <<ctrKind, count, fl, incSum, decSum, cleared, reported, nCtrOps>>
smpVars == <<kind, reservoirSize, sampleCount, heap, values, store, t0, t1,
             clock, sn, snaps, nUpdates, nClears, nSnapshots, panicked>>
ewmaVars == <<uncounted, rate, init, tk, updSum, drained, negSeen, nEwUpdates,
              nTicks>>
pctVars == <<ssValues, ssGiven, ssPs, ssScores, ssStats>>
repVars == <<rp, tickPending, gauge, atCopy, flushed, reportsActive, nFires,
             nReports, nReceived, nLogged>>
arbVars == <<taLock, started, metrics, ad, loops, lp, ticked, nMeters, nArbTicks>>
idVars == <<name1, tags1, name2, tags2, given, ids>>
mtrVars == <<tmFlash, smCount, mCount, aUnc, mRates, mLock, tu, tsn, mt, mf,
             emitted, tmCleared, nTmUpdates, nTmSnaps, nMTicks, nMFlushes>>
lkVars == <<held, lk, lkRegistry, lkTicking, nLkTimers, nLkCalls, nLkPasses>>
frVars == <<hsCount, hsValues, hf, hsnaps, outcomes, inReport, nFrReports,
            nHsUpdates>>
\* the parts added to the registry, the counters and the samples
restVars == <<ewmaVars, pctVars, repVars, arbVars, idVars, mtrVars, lkVars,
              frVars>>
\* what the actions of one part leave unchanged
notEwma == <<regVars, ctrVars, smpVars, pctVars, repVars, arbVars, idVars,
            mtrVars, lkVars, frVars>>
notPct == <<regVars, ctrVars, smpVars, ewmaVars, repVars, arbVars, idVars,
           mtrVars, lkVars, frVars>>
notArb == <<regVars, ctrVars, smpVars, ewmaVars, pctVars, repVars, idVars,
           mtrVars, lkVars, frVars>>
notId == <<regVars, ctrVars, smpVars, ewmaVars, pctVars, repVars, arbVars,
          mtrVars, lkVars, frVars>>
\* the reporter loop takes rep.lock and reads rep.registry
notRep == <<registry, objs, th, fallbackCalls, fetchReturned, lastRegistered,
            nOps, ctrVars, smpVars, ewmaVars, pctVars, arbVars, idVars, mtrVars,
            lkVars, frVars>>
notMtr == <<regVars, ctrVars, smpVars, ewmaVars, pctVars, repVars, arbVars,
           idVars, lkVars, frVars>>
notLk == <<regVars, ctrVars, smpVars, ewmaVars, pctVars, repVars, arbVars,
          idVars, mtrVars, frVars>>
\* a Report flushes the FlashCounter
notFr == <<regVars, smpVars, ewmaVars, pctVars, repVars, arbVars, idVars,
          mtrVars, lkVars>>
vars == <<regVars, ctrVars, smpVars, restVars>>

-----------------------------------------------------------------------------
(* Bounds of the model *)

\* registry calls started in one behaviour
MaxOps == 3
\* Inc/Dec/Clear/Flush calls started in one behaviour
MaxCtrOps == 4
\* largest reservoirSize a sample is constructed with
MaxReservoirSize == 1
\* Update calls on the sample in one behaviour
MaxUpdates == 3
\* Clear calls made by callers in one behaviour
MaxClears == 1
\* Snapshot calls started in one behaviour
MaxSnapshots == 1
\* the clock stops advancing here (in units of rescaleThreshold)
MaxClock == 2
\* the largest reservoir of the ExpDecaySample whose rescale is examined
MaxDecaySize == 2
\* EWMA.Update calls in one behaviour
MaxEwUpdates == 2
\* EWMA.Tick calls started in one behaviour
MaxTicks == 3
\* largest number of values in the snapshot whose statistics are computed
MaxValues == 5
\* fires of the reporter's ticker in one behaviour
MaxFires == 2
\* registry calls started while the reporter loop runs
MaxRepOps == 2
\* NewMeter calls in one behaviour
MaxMeters == 3
\* ticks the arbiter's loop handles in one behaviour
MaxArbTicks == 2
\* longest tag string passed to NewMetricID
MaxTagLen == 1
\* largest number of tags passed to NewMetricID
MaxTags == 2
\* Timer.Update calls
MaxTmUpdates == 3
\* Timer.Snapshot calls
MaxTmSnaps == 1
\* tick() calls on the meter
MaxMTicks == 2
\* Flush calls on the meter
MaxMFlushes == 2
\* Fetch, Register, Get and Update calls in the model of the locks
MaxLkCalls == 2
\* Series calls, and passes of the arbiter, in the model of the locks
MaxLkPasses == 1
\* Report calls over the FlashCounter and the histogram
MaxFrReports == 2
\* Histogram.Update calls
MaxHsUpdates == 2
\* the reservoir size of the histogram's FlashSample
MaxHsSize == 1

-----------------------------------------------------------------------------
(* Strings *)

\* the one-character strings used, as byte codes
StrA == <<97>>
StrB == <<98>>
StrX == <<120>>
StrY == <<121>>
\* "|" and ",", the separators of NewMetricID
Pipe == <<124>>
Comma == <<44>>

\* Go's string comparison s < t: bytewise lexicographic
RECURSIVE StrLess(_, _)
StrLess(s, t) ==
    IF t = <<>> THEN FALSE
    ELSE IF s = <<>> THEN TRUE
    ELSE IF Head(s) # Head(t) THEN Head(s) < Head(t)
    ELSE StrLess(Tail(s), Tail(t))

\* insert string s into the ascending sequence of strings ss
RECURSIVE SortInsert(_, _)
SortInsert(s, ss) ==
    IF ss = <<>> THEN <<s>>
    ELSE IF StrLess(Head(ss), s) THEN <<Head(ss)>> \o SortInsert(s, Tail(ss))
    ELSE <<s>> \o ss

\* sort.Strings(tags): the slice in ascending order
RECURSIVE SortStrings(_)
SortStrings(tags) ==
    IF tags = <<>> THEN <<>>
    ELSE SortInsert(Head(tags), SortStrings(Tail(tags)))

\* strings.Join(tags, ",")
RECURSIVE Join(_)
Join(tags) ==
    IF tags = <<>> THEN <<>>
    ELSE IF Len(tags) = 1 THEN Head(tags)
    ELSE Head(tags) \o Comma \o Join(Tail(tags))

\* a variant of NewMetricID that joins the tags as they come
NewMetricIDUnsorted(name, tags) == name \o Pipe \o Join(tags)

\* NewMetricID(name, tags): name + "|" + Join(sorted tags, ",")
NewMetricID(name, tags) == name \o Pipe \o Join(SortStrings(tags))

-----------------------------------------------------------------------------
(* MetricReporter *)

RegThreads == {"g1", "g2", "g3"}
NoThread == "none"
\* a nil Metric
NoMetric == 0

\* the (name, tags...) arguments the callers use
Inputs ==
    { [name |-> StrX, tags |-> <<StrA, StrB>>],
      [name |-> StrX, tags |-> <<StrB, StrA>>],
      [name |-> StrY, tags |-> <<>>] }

AllIDs == { NewMetricID(i.name, i.tags) : i \in Inputs }

Idle == [pc |-> "idle", name |-> <<>>, tags |-> <<>>, id |-> <<>>,
         val |-> NoMetric, ok |-> FALSE]

\* val, ok := rep.registry[id]
MapHas(reg, id) == id \in DOMAIN reg
MapGet(reg, id) == IF id \in DOMAIN reg THEN reg[id] ELSE NoMetric

\* a variant of MapPut that keeps an existing entry
MapPutIfAbsent(reg, id, m) ==
    IF id \in DOMAIN reg THEN reg
    ELSE [k \in DOMAIN reg \cup {id} |-> IF k = id THEN m ELSE reg[k]]

\* rep.registry[id] = m
MapPut(reg, id, m) ==
    [k \in DOMAIN reg \cup {id} |-> IF k = id THEN m ELSE reg[k]]

\* a variant of CanLock that ignores the holder
CanLockAlways(l) == TRUE

\* rep.lock.Lock() returns only when nobody holds the mutex
CanLock(l) == l = NoThread

\* a metric constructor (NewCounter, NewGauge, ...): a new object with the
\* given name and the given tags slice
NewMetric(os, name, tags) ==
    [o \in DOMAIN os \cup {Cardinality(DOMAIN os) + 1} |->
        IF o \in DOMAIN os THEN os[o] ELSE [name |-> name, tags |-> tags]]

NewObj(os) == Cardinality(DOMAIN os) + 1

RegInit ==
    /\ registry = <<>>
    /\ lock = NoThread
    /\ objs = <<>>
    /\ th = [t \in RegThreads |-> Idle]
    /\ fallbackCalls = [id \in AllIDs |-> 0]
    /\ fetchReturned = [id \in AllIDs |-> {}]
    /\ lastRegistered = [id \in AllIDs |-> NoMetric]
    /\ nOps = 0

\* Register(m), entered: the caller has constructed m
RegisterCall(t) ==
    /\ th[t].pc = "idle"
    /\ nOps < MaxOps
    /\ \E in \in Inputs :
        /\ objs' = NewMetric(objs, in.name, in.tags)
        /\ th' = [th EXCEPT ![t] = [Idle EXCEPT !.pc = "reg_lock",
                                               !.val = NewObj(objs)]]
    /\ nOps' = nOps + 1
    /\ UNCHANGED <<registry, lock, fallbackCalls, fetchReturned, lastRegistered>>
    /\ UNCHANGED <<ctrVars, smpVars, restVars>>

\* rep.lock.Lock()
RegisterLock(t) ==
    /\ th[t].pc = "reg_lock"
    /\ CanLock(lock)
    /\ lock' = t
    /\ th' = [th EXCEPT ![t].pc = "reg_store"]
    /\ UNCHANGED <<registry, objs, fallbackCalls, fetchReturned, lastRegistered, nOps>>
    /\ UNCHANGED <<ctrVars, smpVars, restVars>>

\* rep.registry[NewMetricID(m.Name(), m.Tags())] = m; NewMetricID sorts
\* m.Tags() in place
RegisterStore(t) ==
    /\ th[t].pc = "reg_store"
    /\ LET m == th[t].val
           id == NewMetricID(objs[m].name, objs[m].tags)
       IN /\ objs' = [objs EXCEPT ![m].tags = SortStrings(objs[m].tags)]
          /\ registry' = MapPut(registry, id, m)
          /\ lastRegistered' = [lastRegistered EXCEPT ![id] = m]
          /\ th' = [th EXCEPT ![t].pc = "reg_unlock", ![t].id = id]
    /\ UNCHANGED <<lock, fallbackCalls, fetchReturned, nOps>>
    /\ UNCHANGED <<ctrVars, smpVars, restVars>>

\* rep.lock.Unlock() and return
RegisterUnlock(t) ==
    /\ th[t].pc = "reg_unlock"
    /\ lock' = NoThread
    /\ th' = [th EXCEPT ![t].pc = "idle"]
    /\ UNCHANGED <<registry, objs, fallbackCalls, fetchReturned, lastRegistered, nOps>>
    /\ UNCHANGED <<ctrVars, smpVars, restVars>>

\* Get(name, tags...): id := NewMetricID(name, tags), which sorts the
\* caller's slice; then GetByID(id)
GetCall(t) ==
    /\ th[t].pc = "idle"
    /\ nOps < MaxOps
    /\ \E in \in Inputs :
        th' = [th EXCEPT ![t] = [Idle EXCEPT !.pc = "get_lock",
                                             !.name = in.name,
                                             !.tags = SortStrings(in.tags),
                                             !.id = NewMetricID(in.name, in.tags)]]
    /\ nOps' = nOps + 1
    /\ UNCHANGED <<registry, lock, objs, fallbackCalls, fetchReturned, lastRegistered>>
    /\ UNCHANGED <<ctrVars, smpVars, restVars>>

\* GetByID: rep.lock.Lock()
GetLock(t) ==
    /\ th[t].pc = "get_lock"
    /\ CanLock(lock)
    /\ lock' = t
    /\ th' = [th EXCEPT ![t].pc = "get_read"]
    /\ UNCHANGED <<registry, objs, fallbackCalls, fetchReturned, lastRegistered, nOps>>
    /\ UNCHANGED <<ctrVars, smpVars, restVars>>

\* GetByID: val, ok := rep.registry[id]; rep.lock.Unlock()
GetRead(t) ==
    /\ th[t].pc = "get_read"
    /\ th' = [th EXCEPT ![t].pc = "get_return",
                        ![t].val = MapGet(registry, th[t].id),
                        ![t].ok = MapHas(registry, th[t].id)]
    /\ lock' = NoThread
    /\ UNCHANGED <<registry, objs, fallbackCalls, fetchReturned, lastRegistered, nOps>>
    /\ UNCHANGED <<ctrVars, smpVars, restVars>>

\* GetByID: if ok { return val }; return nil
GetReturn(t) ==
    /\ th[t].pc = "get_return"
    /\ th' = [th EXCEPT ![t].pc = "idle",
                        ![t].val = IF th[t].ok THEN th[t].val ELSE NoMetric]
    /\ UNCHANGED <<registry, lock, objs, fallbackCalls, fetchReturned, lastRegistered, nOps>>
    /\ UNCHANGED <<ctrVars, smpVars, restVars>>

\* Fetch(fallback, name, tags...): id := NewMetricID(name, tags)
FetchCall(t) ==
    /\ th[t].pc = "idle"
    /\ nOps < MaxOps
    /\ \E in \in Inputs :
        th' = [th EXCEPT ![t] = [Idle EXCEPT !.pc = "fetch_lock",
                                             !.name = in.name,
                                             !.tags = SortStrings(in.tags),
                                             !.id = NewMetricID(in.name, in.tags)]]
    /\ nOps' = nOps + 1
    /\ UNCHANGED <<registry, lock, objs, fallbackCalls, fetchReturned, lastRegistered>>
    /\ UNCHANGED <<ctrVars, smpVars, restVars>>

\* rep.lock.Lock(); defer rep.lock.Unlock()
FetchLock(t) ==
    /\ th[t].pc = "fetch_lock"
    /\ CanLock(lock)
    /\ lock' = t
    /\ th' = [th EXCEPT ![t].pc = "fetch_lookup"]
    /\ UNCHANGED <<registry, objs, fallbackCalls, fetchReturned, lastRegistered, nOps>>
    /\ UNCHANGED <<ctrVars, smpVars, restVars>>

\* val, ok := rep.registry[id]
FetchLookup(t) ==
    /\ th[t].pc = "fetch_lookup"
    /\ th' = [th EXCEPT ![t].pc = IF MapHas(registry, th[t].id)
                                  THEN "fetch_return" ELSE "fetch_create",
                        ![t].val = MapGet(registry, th[t].id),
                        ![t].ok = MapHas(registry, th[t].id)]
    /\ UNCHANGED <<registry, lock, objs, fallbackCalls, fetchReturned, lastRegistered, nOps>>
    /\ UNCHANGED <<ctrVars, smpVars, restVars>>

\* if !ok { val = fallback(); rep.registry[id] = val }
FetchCreate(t) ==
    /\ th[t].pc = "fetch_create"
    /\ objs' = NewMetric(objs, th[t].name, th[t].tags)
    /\ fallbackCalls' = [fallbackCalls EXCEPT ![th[t].id] = @ + 1]
    /\ registry' = MapPut(registry, th[t].id, NewObj(objs))
    /\ th' = [th EXCEPT ![t].pc = "fetch_return", ![t].val = NewObj(objs)]
    /\ UNCHANGED <<lock, fetchReturned, lastRegistered, nOps>>
    /\ UNCHANGED <<ctrVars, smpVars, restVars>>

\* return val, running the deferred rep.lock.Unlock()
FetchReturn(t) ==
    /\ th[t].pc = "fetch_return"
    /\ lock' = NoThread
    /\ fetchReturned' = [fetchReturned EXCEPT ![th[t].id] = @ \cup {th[t].val}]
    /\ th' = [th EXCEPT ![t].pc = "idle"]
    /\ UNCHANGED <<registry, objs, fallbackCalls, lastRegistered, nOps>>
    /\ UNCHANGED <<ctrVars, smpVars, restVars>>

RegNext ==
    \E t \in RegThreads :
        \/ RegisterCall(t) \/ RegisterLock(t) \/ RegisterStore(t) \/ RegisterUnlock(t)
        \/ GetCall(t) \/ GetLock(t) \/ GetRead(t) \/ GetReturn(t)
        \/ FetchCall(t) \/ FetchLock(t) \/ FetchLookup(t) \/ FetchCreate(t)
        \/ FetchReturn(t)

-----------------------------------------------------------------------------
(* Counter and FlashCounter *)

FlushThreads == {"loop", "direct"}

\* the amounts passed to Inc and Dec (int64, signed)
CtrAmounts == {-1, 1, 2}

FlIdle == [pc |-> "idle", count |-> 0]

\* atomic.AddInt64(&c.count, delta)
AtomicAddInt64(c, delta) == c + delta

\* Counter.Inc(i)
CounterInc(c, i) == AtomicAddInt64(c, i)

\* a variant of CounterDec that adds the amount
CounterDecAdds(c, i) == AtomicAddInt64(c, i)

\* Counter.Dec(i)
CounterDec(c, i) == AtomicAddInt64(c, -i)

\* a variant of FlashFlushDec that resets the counter to zero
FlashFlushStoresZero(c, loaded) == 0

\* FlashCounter.Flush's deferred m.Dec(count), count being the value read
FlashFlushDec(c, loaded) == CounterDec(c, loaded)

RECURSIVE SeqSum(_)
SeqSum(s) == IF s = <<>> THEN 0 ELSE Head(s) + SeqSum(Tail(s))

CtrInit ==
    /\ ctrKind \in {"Counter", "FlashCounter"}
    /\ count = 0
    /\ fl = [t \in FlushThreads |-> FlIdle]
    /\ incSum = 0
    /\ decSum = 0
    /\ cleared = FALSE
    /\ reported = <<>>
    /\ nCtrOps = 0

\* c.Inc(i)
IncOf(i) ==
    /\ nCtrOps < MaxCtrOps
    /\ count' = CounterInc(count, i)
    /\ incSum' = incSum + i
    /\ nCtrOps' = nCtrOps + 1
    /\ UNCHANGED <<ctrKind, fl, decSum, cleared, reported>>
    /\ UNCHANGED <<regVars, smpVars, restVars>>

\* Inc with any amount
Inc == \E i \in CtrAmounts : IncOf(i)

\* c.Dec(i)
Dec ==
    /\ nCtrOps < MaxCtrOps
    /\ \E i \in CtrAmounts :
        /\ count' = CounterDec(count, i)
        /\ decSum' = decSum + i
    /\ nCtrOps' = nCtrOps + 1
    /\ UNCHANGED <<ctrKind, fl, incSum, cleared, reported>>
    /\ UNCHANGED <<regVars, smpVars, restVars>>

\* c.Clear(): atomic.StoreInt64(&c.count, 0)
CounterClear ==
    /\ nCtrOps < MaxCtrOps
    /\ count' = 0
    /\ cleared' = TRUE
    /\ nCtrOps' = nCtrOps + 1
    /\ UNCHANGED <<ctrKind, fl, incSum, decSum, reported>>
    /\ UNCHANGED <<regVars, smpVars, restVars>>

\* Counter.Flush: one series holding m.Count()
CounterFlush(t) ==
    /\ ctrKind = "Counter"
    /\ fl[t].pc = "idle"
    /\ nCtrOps < MaxCtrOps
    /\ reported' = Append(reported, count)
    /\ nCtrOps' = nCtrOps + 1
    /\ UNCHANGED <<ctrKind, count, fl, incSum, decSum, cleared>>
    /\ UNCHANGED <<regVars, smpVars, restVars>>

\* FlashCounter.Flush: count := m.Count(); defer m.Dec(count)
FlashFlushRead(t) ==
    /\ ctrKind = "FlashCounter"
    /\ fl[t].pc = "idle"
    /\ nCtrOps < MaxCtrOps
    /\ fl' = [fl EXCEPT ![t] = [pc |-> "dec", count |-> count]]
    /\ nCtrOps' = nCtrOps + 1
    /\ UNCHANGED <<ctrKind, count, incSum, decSum, cleared, reported>>
    /\ UNCHANGED <<regVars, smpVars, restVars>>

\* FlashCounter.Flush: return the series holding count; the deferred
\* m.Dec(count) runs before the caller gets it
FlashFlushReturn(t) ==
    /\ ctrKind = "FlashCounter"
    /\ fl[t].pc = "dec"
    /\ count' = FlashFlushDec(count, fl[t].count)
    /\ reported' = Append(reported, fl[t].count)
    /\ fl' = [fl EXCEPT ![t] = FlIdle]
    /\ UNCHANGED <<ctrKind, incSum, decSum, cleared, nCtrOps>>
    /\ UNCHANGED <<regVars, smpVars, restVars>>

CtrNext ==
    \/ Inc
    \/ Dec
    \/ CounterClear
    \/ \E t \in FlushThreads :
        CounterFlush(t) \/ FlashFlushRead(t) \/ FlashFlushReturn(t)

\* a FlashCounter that is only incremented, by amounts that are not
\* negative, and flushed by the Start loop and by a direct caller of Report
FlashNext ==
    \/ \E i \in {a \in CtrAmounts : a >= 0} : IncOf(i)
    \/ \E t \in FlushThreads : FlashFlushRead(t) \/ FlashFlushReturn(t)

-----------------------------------------------------------------------------
(* Samples: ExpDecaySample, UniformSample, FlashSample *)

SnapThreads == {"s1", "s2"}

\* the values passed to Update (int64, signed)
UpdateValues == {-1, 2}

\* the priorities math.Exp(elapsed * alpha) / rand.Float64() can take, as
\* ranks
Priorities == {1, 2}

\* const rescaleThreshold = time.Hour, the unit of the clock
RescaleThreshold == 1

\* math.Exp(-s.alpha * float64(s.t0.Sub(t0))): the Duration converts to
\* nanoseconds, more than 3.6e12 of them, so the factor underflows to 0
RescaleFactor == 0

ArrayIds == 1 .. (MaxSnapshots + 2)
NoArray == 0
NoSlice == [arr |-> NoArray, len |-> 0]

SnIdle == [pc |-> "idle", count |-> 0, arr |-> NoArray, len |-> 0]

\* q.Swap(i, j), 0-based as in Go
HeapSwap(h, i, j) == [h EXCEPT ![i + 1] = h[j + 1], ![j + 1] = h[i + 1]]

\* q.Less(i, j)
HeapLess(h, i, j) == h[i + 1].k < h[j + 1].k

\* container/heap up(h, j)
RECURSIVE HeapUp(_, _)
HeapUp(h, j) ==
    LET i == IF j = 0 THEN 0 ELSE (j - 1) \div 2
    IN IF i = j \/ ~HeapLess(h, j, i) THEN h
       ELSE HeapUp(HeapSwap(h, i, j), i)

\* container/heap down(h, i, n)
RECURSIVE HeapDown(_, _, _)
HeapDown(h, i, n) ==
    LET j1 == 2 * i + 1
        j2 == j1 + 1
        j == IF j2 < n /\ HeapLess(h, j2, j1) THEN j2 ELSE j1
    IN IF j1 >= n THEN h
       ELSE IF ~HeapLess(h, j, i) THEN h
       ELSE HeapDown(HeapSwap(h, i, j), j, n)

\* heap.Push(&q, x): q.Push(x) then up(len - 1)
HeapPush(h, x) == HeapUp(Append(h, x), Len(h))

\* heap.Pop(&q) on a non-empty heap: Swap(0, n), down(0, n), q.Pop()
HeapPop(h) ==
    LET n == Len(h) - 1
    IN SubSeq(HeapDown(HeapSwap(h, 0, n), 0, n), 1, n)

\* heap.Pop(&q) panics on an empty heap: Swap(0, -1) indexes out of range
HeapPopPanics(h) == Len(h) = 0

\* a variant of ExpDecayInsert that never evicts
ExpDecayInsertNoPop(h, size, x) == HeapPush(h, x)

\* update: if len(s.values) == s.reservoirSize { heap.Pop }; heap.Push
ExpDecayInsert(h, size, x) ==
    HeapPush(IF Len(h) = size THEN HeapPop(h) ELSE h, x)

\* update: the rescale loop, pushing every value with its key multiplied
RECURSIVE RescaleInto(_, _)
RescaleInto(acc, rest) ==
    IF rest = <<>> THEN acc
    ELSE RescaleInto(HeapPush(acc, [k |-> Head(rest).k * RescaleFactor,
                                    v |-> Head(rest).v]),
                     Tail(rest))

\* the arrays some slice refers to
UsedArrays(vals, snp, locals) ==
    ({vals.arr} \cup {snp[i].arr : i \in DOMAIN snp}
        \cup {locals[t].arr : t \in SnapThreads}) \ {NoArray}

\* make([]int64, ...): an array nothing refers to
FreshArray(used) ==
    CHOOSE a \in ArrayIds \ used : \A b \in ArrayIds \ used : a <= b

\* arrays nothing refers to are garbage
Collect(st, used) == [a \in ArrayIds |-> IF a \in used THEN st[a] ELSE <<>>]

\* the elements of a slice
SliceElems(st, sl) == IF sl.arr = NoArray THEN <<>> ELSE SubSeq(st[sl.arr], 1, sl.len)

\* a variant of UniformValues that returns s.values itself
UniformValuesNoCopy(st, sl, fresh) == [store |-> st, slice |-> sl]

\* UniformSample.Values: values := make([]int64, len(s.values)); copy
UniformValues(st, sl, fresh) ==
    [store |-> [st EXCEPT ![fresh] = SliceElems(st, sl)],
     slice |-> [arr |-> fresh, len |-> sl.len]]

\* ExpDecaySample.Values: values[i] = v.v for every element of the heap
ExpDecayValues(st, h, fresh) ==
    [store |-> [st EXCEPT ![fresh] = [i \in 1 .. Len(h) |-> h[i].v]],
     slice |-> [arr |-> fresh, len |-> Len(h)]]

\* a variant of UniformAppend that overwrites the last slot of a full
\* reservoir without counting
UniformCountFull(c, n, size) == IF n < size THEN c + 1 ELSE c

\* UniformSample.Update: s.count++
UniformCount(c, n, size) == c + 1

\* Size(): len(s.values)
SampleSize == IF kind = "ExpDecay" THEN Len(heap) ELSE values.len

\* Count(): s.count
SampleCountOf == sampleCount

\* a variant of SnapshotClears in which every Snapshot clears
SnapshotClearsAlways(kd) == TRUE

\* FlashSample.Snapshot calls s.Clear(); the other Snapshots do not
SnapshotClears(kd) == kd = "Flash"

\* the constructor has returned, nothing was recorded yet
SmpStart ==
    /\ sampleCount = 0
    /\ heap = <<>>
    /\ values = IF kind = "ExpDecay" THEN NoSlice ELSE [arr |-> 1, len |-> 0]
    /\ store = [a \in ArrayIds |-> <<>>]
    /\ clock = 0
    /\ t0 = 0
    /\ t1 = RescaleThreshold
    /\ sn = [t \in SnapThreads |-> SnIdle]
    /\ snaps = <<>>
    /\ nUpdates = 0
    /\ nClears = 0
    /\ nSnapshots = 0
    /\ panicked = FALSE

SmpInit ==
    /\ kind \in {"ExpDecay", "Uniform", "Flash"}
    /\ reservoirSize \in 0 .. MaxReservoirSize
    /\ SmpStart

\* NewExpDecaySample(reservoirSize, alpha) with room for several values
ExpDecayInit ==
    /\ kind = "ExpDecay"
    /\ reservoirSize \in 1 .. MaxDecaySize
    /\ SmpStart

\* time passes; only ExpDecaySample reads the clock
Tick ==
    /\ kind = "ExpDecay"
    /\ ~panicked
    /\ clock < MaxClock
    /\ clock' = clock + 1
    /\ UNCHANGED <<kind, reservoirSize, sampleCount, heap, values, store, t0, t1,
                   sn, snaps, nUpdates, nClears, nSnapshots, panicked>>
    /\ UNCHANGED <<regVars, ctrVars, restVars>>

\* ExpDecaySample.Update(v): s.update(time.Now(), v)
ExpDecayUpdate ==
    /\ kind = "ExpDecay"
    /\ ~panicked
    /\ nUpdates < MaxUpdates
    /\ nUpdates' = nUpdates + 1
    /\ sampleCount' = sampleCount + 1
    /\ \E v \in UpdateValues, k \in Priorities :
        IF Len(heap) = reservoirSize /\ HeapPopPanics(heap)
        THEN /\ panicked' = TRUE
             /\ UNCHANGED <<heap, t0, t1>>
        ELSE LET h == ExpDecayInsert(heap, reservoirSize, [k |-> k, v |-> v])
             IN /\ panicked' = FALSE
                /\ IF clock > t1
                   THEN /\ heap' = RescaleInto(<<>>, h)
                        /\ t0' = clock
                        /\ t1' = clock + RescaleThreshold
                   ELSE /\ heap' = h
                        /\ UNCHANGED <<t0, t1>>
    /\ UNCHANGED <<kind, reservoirSize, values, store, clock, sn, snaps, nClears,
                   nSnapshots>>
    /\ UNCHANGED <<regVars, ctrVars, restVars>>

\* UniformSample.Update(v), also FlashSample's
UniformUpdateOf(v) ==
    /\ kind \in {"Uniform", "Flash"}
    /\ ~panicked
    /\ nUpdates < MaxUpdates
    /\ nUpdates' = nUpdates + 1
    /\ sampleCount' = UniformCount(sampleCount, values.len, reservoirSize)
    /\ IF values.len < reservoirSize
       THEN /\ store' = [store EXCEPT ![values.arr] =
                               Append(SubSeq(@, 1, values.len), v)]
            /\ values' = [values EXCEPT !.len = @ + 1]
            /\ UNCHANGED panicked
       ELSE IF reservoirSize = 0
       THEN \* rand.Intn(0) panics
            /\ panicked' = TRUE
            /\ UNCHANGED <<store, values>>
       ELSE \* s.values[rand.Intn(s.reservoirSize)] = v
            \E r \in 0 .. reservoirSize - 1 :
            /\ store' = [store EXCEPT ![values.arr][r + 1] = v]
            /\ UNCHANGED <<values, panicked>>
    /\ UNCHANGED <<kind, reservoirSize, heap, t0, t1, clock, sn, snaps, nClears,
                   nSnapshots>>
    /\ UNCHANGED <<regVars, ctrVars, restVars>>

\* Update with any value
UniformUpdate == \E v \in UpdateValues : UniformUpdateOf(v)

\* what s.Clear() assigns
ClearAssign ==
    /\ sampleCount' = 0
    /\ IF kind = "ExpDecay"
       THEN /\ t0' = clock
            /\ t1' = clock + RescaleThreshold
            /\ heap' = <<>>
            /\ UNCHANGED values
       ELSE /\ values' = [arr |-> FreshArray(UsedArrays(values, snaps, sn)),
                          len |-> 0]
            /\ UNCHANGED <<heap, t0, t1>>

\* Clear(), called by a user of the sample
SampleClear ==
    /\ ~panicked
    /\ nClears < MaxClears
    /\ nClears' = nClears + 1
    /\ ClearAssign
    /\ store' = Collect(store, UsedArrays(values', snaps, sn))
    /\ UNCHANGED <<kind, reservoirSize, clock, sn, snaps, nUpdates, nSnapshots,
                   panicked>>
    /\ UNCHANGED <<regVars, ctrVars, restVars>>

\* Snapshot(): the argument s.Count() of NewSampleSnapshot
SnapshotCount(t) ==
    /\ ~panicked
    /\ sn[t].pc = "idle"
    /\ nSnapshots < MaxSnapshots
    /\ nSnapshots' = nSnapshots + 1
    /\ sn' = [sn EXCEPT ![t] = [SnIdle EXCEPT !.pc = "values",
                                              !.count = SampleCountOf]]
    /\ UNCHANGED <<kind, reservoirSize, sampleCount, heap, values, store, t0, t1,
                   clock, snaps, nUpdates, nClears, panicked>>
    /\ UNCHANGED <<regVars, ctrVars, restVars>>

\* Snapshot(): the argument s.Values() of NewSampleSnapshot; ExpDecaySample
\* and UniformSample return the snapshot
SnapshotValues(t) ==
    /\ ~panicked
    /\ sn[t].pc = "values"
    /\ LET fresh == FreshArray(UsedArrays(values, snaps, sn))
           got == IF kind = "ExpDecay" THEN ExpDecayValues(store, heap, fresh)
                  ELSE UniformValues(store, values, fresh)
           snap == [count |-> sn[t].count, arr |-> got.slice.arr,
                    len |-> got.slice.len]
       IN IF SnapshotClears(kind)
          THEN /\ sn' = [sn EXCEPT ![t] = [pc |-> "clear", count |-> snap.count,
                                           arr |-> snap.arr, len |-> snap.len]]
               /\ store' = got.store
               /\ UNCHANGED snaps
          ELSE /\ sn' = [sn EXCEPT ![t] = SnIdle]
               /\ snaps' = Append(snaps, snap)
               /\ store' = got.store
    /\ UNCHANGED <<kind, reservoirSize, sampleCount, heap, values, t0, t1, clock,
                   nUpdates, nClears, nSnapshots, panicked>>
    /\ UNCHANGED <<regVars, ctrVars, restVars>>

\* FlashSample.Snapshot(): s.Clear(); return snap
FlashSnapshotClear(t) ==
    /\ ~panicked
    /\ sn[t].pc = "clear"
    /\ ClearAssign
    /\ snaps' = Append(snaps, [count |-> sn[t].count, arr |-> sn[t].arr,
                               len |-> sn[t].len])
    /\ sn' = [sn EXCEPT ![t] = SnIdle]
    /\ store' = Collect(store, UsedArrays(values', snaps', sn'))
    /\ UNCHANGED <<kind, reservoirSize, clock, nUpdates, nClears, nSnapshots,
                   panicked>>
    /\ UNCHANGED <<regVars, ctrVars, restVars>>

SmpNext ==
    \/ Tick
    \/ ExpDecayUpdate
    \/ UniformUpdate
    \/ SampleClear
    \/ \E t \in SnapThreads :
        SnapshotCount(t) \/ SnapshotValues(t) \/ FlashSnapshotClear(t)

\* an ExpDecaySample in use: updates as time passes
DecayNext == Tick \/ ExpDecayUpdate

-----------------------------------------------------------------------------
(* SampleSnapshot *)

\* s.values of a snapshot: the elements its slice refers to
SnapshotValuesOf(s) == SliceElems(store, s)

\* SampleSnapshot.Count
SnapshotCountOf(s) == s.count

\* SampleSnapshot.Size: len(s.values)
SnapshotSize(s) == s.len

\* SampleSnapshot.Max: 0 when empty, else the largest value
SnapshotMax(vs) ==
    IF Len(vs) = 0 THEN 0
    ELSE CHOOSE m \in {vs[i] : i \in DOMAIN vs} : \A i \in DOMAIN vs : vs[i] <= m

\* SampleSnapshot.Min: 0 when empty, else the smallest value
SnapshotMin(vs) ==
    IF Len(vs) = 0 THEN 0
    ELSE CHOOSE m \in {vs[i] : i \in DOMAIN vs} : \A i \in DOMAIN vs : m <= vs[i]

\* SampleSnapshot.Sum
SnapshotSum(vs) == SeqSum(vs)

\* SampleSnapshot.Mean: 0.0 when empty, else float64(Sum) / float64(len),
\* kept as the fraction <<numerator, denominator>>
SnapshotMean(vs) ==
    IF Len(vs) = 0 THEN <<0, 1>> ELSE <<SnapshotSum(vs), Len(vs)>>

RECURSIVE IntInsert(_, _)
IntInsert(x, xs) ==
    IF xs = <<>> THEN <<x>>
    ELSE IF Head(xs) < x THEN <<Head(xs)>> \o IntInsert(x, Tail(xs))
    ELSE <<x>> \o xs

\* sort.Sort(s.values): ascending
RECURSIVE SortInts(_)
SortInts(xs) ==
    IF xs = <<>> THEN <<>> ELSE IntInsert(Head(xs), SortInts(Tail(xs)))

\* a variant of PercentileScore100 that takes the lower neighbour
PercentileScoreLower100(sorted, pc) ==
    LET size == Len(sorted)
        pos100 == pc * (size + 1)
        ipos == pos100 \div 100
    IN IF pos100 < 100 THEN 100 * sorted[1]
       ELSE IF pos100 >= 100 * size THEN 100 * sorted[size]
       ELSE 100 * sorted[ipos]

\* one score of SampleSnapshot.Percentiles over the sorted values, for
\* p = pc / 100, times 100: pos = p * (size + 1); below 1 the first value,
\* from size on the last, else lower + (pos - floor(pos)) * (upper - lower)
PercentileScore100(sorted, pc) ==
    LET size == Len(sorted)
        pos100 == pc * (size + 1)
        ipos == pos100 \div 100
    IN IF pos100 < 100 THEN 100 * sorted[1]
       ELSE IF pos100 >= 100 * size THEN 100 * sorted[size]
       ELSE 100 * sorted[ipos]
            + (pos100 % 100) * (sorted[ipos + 1] - sorted[ipos])

\* SampleSnapshot.Percentiles(ps): all scores 0 when empty, else
\* sort.Sort(s.values) and one score for each p
Percentiles100(vs, ps) ==
    IF Len(vs) = 0 THEN [i \in DOMAIN ps |-> 0]
    ELSE CHOOSE scores \in
            { [i \in DOMAIN ps |-> PercentileScore100(sorted, ps[i])] :
                sorted \in {SortInts(vs)} } : TRUE

\* the percentiles Flush asks for: 0.5, 0.75, 0.95, 0.99
FlushPercentiles == <<50, 75, 95, 99>>

\* everything a snapshot reports
SnapshotStats(s) ==
    CHOOSE stats \in
        { [count |-> SnapshotCountOf(s),
           size |-> SnapshotSize(s),
           min |-> SnapshotMin(vs),
           max |-> SnapshotMax(vs),
           sum |-> SnapshotSum(vs),
           mean |-> SnapshotMean(vs),
           percentiles |-> Percentiles100(vs, FlushPercentiles)] :
            vs \in {SnapshotValuesOf(s)} } : TRUE

\* the slice Values() returns in the current state
SampleValues ==
    LET fresh == FreshArray(UsedArrays(values, snaps, sn))
        got == IF kind = "ExpDecay" THEN ExpDecayValues(store, heap, fresh)
               ELSE UniformValues(store, values, fresh)
    IN SliceElems(got.store, got.slice)

-----------------------------------------------------------------------------
(* EWMA *)

\* the n passed to Update (int64, signed)
EwAmounts == {-1, 1, 3}

\* Tick "assumes it is called every five seconds": float64(5e9) nanoseconds
TickSeconds == 5

\* the alpha of NewEWMA1, 1 - exp(-5/60) = 0.0799..., as the fraction 2/25
AlphaNum == 2
AlphaDen == 25

TkIdle == [pc |-> "idle", count |-> 0]

RECURSIVE Pow(_, _)
Pow(b, e) == IF e = 0 THEN 1 ELSE b * Pow(b, e - 1)

\* a float64 rate is kept exactly, as [num, exp] for the number
\* num / (5e9 * AlphaDen^exp) events per nanosecond; the numerator of r over
\* the denominator with exponent e >= r.exp
RateAt(r, e) == r.num * Pow(AlphaDen, e - r.exp)

\* one number has one representation: the least exponent
RECURSIVE RateNorm(_)
RateNorm(r) ==
    IF r.exp > 0 /\ r.num % AlphaDen = 0
    THEN RateNorm([num |-> r.num \div AlphaDen, exp |-> r.exp - 1])
    ELSE r

\* a < b for two rates
RateLess(a, b) ==
    LET e == IF a.exp < b.exp THEN b.exp ELSE a.exp
    IN RateAt(a, e) < RateAt(b, e)

\* instantRate := float64(count) / float64(5e9)
InstantRate(c) == [num |-> c, exp |-> 0]

\* a.rate += a.alpha * (instantRate - a.rate)
EwmaBlend(r, inst) ==
    RateNorm([num |-> AlphaDen * r.num + AlphaNum * (RateAt(inst, r.exp) - r.num),
              exp |-> r.exp + 1])

\* a variant of EwmaTickRate that blends the first tick with the initial 0
EwmaTickRateBlendsFirst(r, ini, inst) == EwmaBlend(r, inst)

\* Tick: if a.init { blend } else { a.init = true; a.rate = instantRate }
EwmaTickRate(r, ini, inst) == IF ini THEN EwmaBlend(r, inst) ELSE inst

\* Rate(): a.rate * float64(1e9), events per second, as the fraction
\* <<numerator, denominator>>
EwmaRate(r) == <<r.num, TickSeconds * Pow(AlphaDen, r.exp)>>

\* a variant of EwmaDrain that stores zero
EwmaDrainStoresZero(u, c) == 0

\* Tick: atomic.AddInt64(&a.uncounted, -count)
EwmaDrain(u, c) == AtomicAddInt64(u, -c)

EwmaInit ==
    /\ uncounted = 0
    /\ rate = [num |-> 0, exp |-> 0]
    /\ init = FALSE
    /\ tk = TkIdle
    /\ updSum = 0
    /\ drained = 0
    /\ negSeen = FALSE
    /\ nEwUpdates = 0
    /\ nTicks = 0

\* a.Update(n): atomic.AddInt64(&a.uncounted, n)
EwmaUpdate ==
    /\ nEwUpdates < MaxEwUpdates
    /\ \E n \in EwAmounts :
        /\ uncounted' = AtomicAddInt64(uncounted, n)
        /\ updSum' = updSum + n
        /\ negSeen' = (negSeen \/ n < 0)
    /\ nEwUpdates' = nEwUpdates + 1
    /\ UNCHANGED <<rate, init, tk, drained, nTicks>>
    /\ UNCHANGED notEwma

\* Tick: count := atomic.LoadInt64(&a.uncounted)
EwmaTickLoad ==
    /\ tk.pc = "idle"
    /\ nTicks < MaxTicks
    /\ tk' = [pc |-> "drain", count |-> uncounted]
    /\ nTicks' = nTicks + 1
    /\ UNCHANGED <<uncounted, rate, init, updSum, drained, negSeen, nEwUpdates>>
    /\ UNCHANGED notEwma

\* Tick: atomic.AddInt64(&a.uncounted, -count)
EwmaTickDrain ==
    /\ tk.pc = "drain"
    /\ uncounted' = EwmaDrain(uncounted, tk.count)
    /\ drained' = drained + tk.count
    /\ tk' = [tk EXCEPT !.pc = "rate"]
    /\ UNCHANGED <<rate, init, updSum, negSeen, nEwUpdates, nTicks>>
    /\ UNCHANGED notEwma

\* Tick: under a.mutex, the first tick sets the rate, a later one blends
EwmaTickRateStep ==
    /\ tk.pc = "rate"
    /\ rate' = EwmaTickRate(rate, init, InstantRate(tk.count))
    /\ init' = TRUE
    /\ tk' = TkIdle
    /\ UNCHANGED <<uncounted, updSum, drained, negSeen, nEwUpdates, nTicks>>
    /\ UNCHANGED notEwma

EwmaNext ==
    \/ EwmaUpdate
    \/ EwmaTickLoad
    \/ EwmaTickDrain
    \/ EwmaTickRateStep

-----------------------------------------------------------------------------
(* The statistics of one SampleSnapshot *)

\* the values a snapshot holds
StatValues == {-3, 1, 2, 3, 4, 5}

\* the ps arguments, in percent: Flush's, and the ends of the range
PsArgs == {FlushPercentiles, <<0, 10, 100>>}

NoStats == [called |-> FALSE]

\* SampleSnapshot.Variance: 0.0 when empty, else the mean of the squared
\* distances to Mean(), as the fraction <<numerator, denominator>>
SnapshotVariance(vs) ==
    IF Len(vs) = 0 THEN <<0, 1>>
    ELSE <<Len(vs) * SeqSum([i \in DOMAIN vs |-> vs[i] * vs[i]])
                - SeqSum(vs) * SeqSum(vs),
           Len(vs) * Len(vs)>>

\* SampleSnapshot.StdDev: math.Sqrt(s.Variance()) is 0 exactly when the
\* variance is
SnapshotStdDevIsZero(vs) == SnapshotVariance(vs)[1] = 0

\* NewSampleSnapshot(count, values) has returned, nothing was asked yet
PctStart ==
    /\ ssValues = ssGiven
    /\ ssPs = <<>>
    /\ ssScores = <<>>
    /\ ssStats = NoStats

PctInit ==
    /\ ssGiven \in UNION { [1 .. n -> StatValues] : n \in 0 .. MaxValues }
    /\ PctStart

\* s.Percentiles(ps): sorts s.values in place and returns the scores
SnapshotPercentiles ==
    /\ \E ps \in PsArgs :
        /\ ssPs' = ps
        /\ ssScores' = Percentiles100(ssValues, ps)
    /\ ssValues' = SortInts(ssValues)
    /\ UNCHANGED <<ssGiven, ssStats>>
    /\ UNCHANGED notPct

\* s.Min(), s.Max(), s.Mean(), s.Sum(), s.StdDev()
SnapshotStatistics ==
    /\ ssStats' = [called |-> TRUE,
                   min |-> SnapshotMin(ssValues),
                   max |-> SnapshotMax(ssValues),
                   mean |-> SnapshotMean(ssValues),
                   sum |-> SnapshotSum(ssValues),
                   stdDevIsZero |-> SnapshotStdDevIsZero(ssValues)]
    /\ UNCHANGED <<ssValues, ssGiven, ssPs, ssScores>>
    /\ UNCHANGED notPct

PctNext ==
    \/ SnapshotPercentiles
    \/ SnapshotStatistics

PctAtRest == ssGiven = <<>> /\ PctStart

-----------------------------------------------------------------------------
(* The reporter loop: Start, Report, Series, registered, Client.post *)

\* the goroutine running Start
LoopThread == "start"

\* the goroutines using the registry while the loop runs
RepCallers == {"g1"}

\* a float64 that encoding/json refuses (NaN, +Inf, -Inf)
NaN == "NaN"

\* the values GaugeF.Update is called with: floats are accepted as they are
GaugeValues == {"1", NaN}

\* what http.Post can end with: an error, or a response with a status
NoResponse == [made |-> FALSE, failed |-> FALSE, status |-> 0]
RequestError == [made |-> TRUE, failed |-> TRUE, status |-> 0]
Response(code) == [made |-> TRUE, failed |-> FALSE, status |-> code]
HttpOutcomes == {RequestError, Response(200), Response(202), Response(403)}

RpIdle == [pc |-> "wait", mets |-> <<>>, i |-> 1, series |-> <<>>,
           encoded |-> FALSE, resp |-> NoResponse, err |-> FALSE]

\* GaugeF.Value()
GaugeValue(g, o) == IF o \in DOMAIN g THEN g[o] ELSE "0"

\* the orders in which `for _, m := range rep.registry` can visit the map
MapOrders(reg) ==
    { ms \in [1 .. Cardinality(DOMAIN reg) -> {reg[id] : id \in DOMAIN reg}] :
        \A i, j \in DOMAIN ms : i # j => ms[i] # ms[j] }

\* c.marshal: json.NewEncoder(&body).Encode(v) fails on a float64 that is
\* not finite
MarshalFails(series) == \E i \in DOMAIN series : series[i].value = NaN

\* a variant of StatusOK that accepts 200 only
StatusOKOnly200(code) == code = 200

\* post: resp.StatusCode != 200 && resp.StatusCode != 202 is the failure
StatusOK(code) == code = 200 \/ code = 202

\* a variant of LockAfterRegistered that keeps the lock
LockKeptAfterRegistered(t) == t

\* registered(): the deferred rep.lock.Unlock() runs when it returns
LockAfterRegistered(t) == NoThread

\* a variant of StartAfterReport in which an error ends the loop
StartStopsAfterError(err) == IF err THEN "stopped" ELSE "wait"

\* Start: if err := rep.Report(); err != nil { log.Printf(...) }, and the
\* range over ticker.C goes on
StartAfterReport(err) == IF err THEN "log" ELSE "wait"

RepInit ==
    /\ rp = RpIdle
    /\ tickPending = FALSE
    /\ gauge = <<>>
    /\ atCopy = {}
    /\ flushed = {}
    /\ reportsActive = 0
    /\ nFires = 0
    /\ nReports = 0
    /\ nReceived = 0
    /\ nLogged = 0

\* the time.Ticker fires: the tick is dropped when ticker.C is full
TickerFire ==
    /\ nFires < MaxFires
    /\ nFires' = nFires + 1
    /\ tickPending' = TRUE
    /\ UNCHANGED <<rp, gauge, atCopy, flushed, reportsActive, nReports, nReceived, nLogged>>
    /\ UNCHANGED <<lock, notRep>>

\* g.Update(v) on a GaugeF, the first one in a behaviour
GaugeFUpdate ==
    /\ gauge = <<>>
    /\ \E o \in DOMAIN objs, v \in GaugeValues : gauge' = MapPut(gauge, o, v)
    /\ UNCHANGED <<rp, tickPending, atCopy, flushed, reportsActive, nFires,
                   nReports, nReceived, nLogged>>
    /\ UNCHANGED <<lock, notRep>>

\* Start: a tick is received from ticker.C and rep.Report() is called
StartReceive ==
    /\ rp.pc = "wait"
    /\ tickPending
    /\ tickPending' = FALSE
    /\ rp' = [RpIdle EXCEPT !.pc = "registered"]
    /\ flushed' = {}
    /\ atCopy' = {}
    /\ reportsActive' = reportsActive + 1
    /\ nReports' = nReports + 1
    /\ nReceived' = nReceived + 1
    /\ UNCHANGED <<gauge, nFires, nLogged>>
    /\ UNCHANGED <<lock, notRep>>

\* Series: mets := rep.registered(), which takes rep.lock
RegisteredLock ==
    /\ rp.pc = "registered"
    /\ CanLock(lock)
    /\ lock' = LoopThread
    /\ rp' = [rp EXCEPT !.pc = "copy"]
    /\ UNCHANGED <<tickPending, gauge, atCopy, flushed, reportsActive, nFires,
                   nReports, nReceived, nLogged>>
    /\ UNCHANGED notRep

\* registered(): the metrics are copied in map order and the lock released
RegisteredCopy ==
    /\ rp.pc = "copy"
    /\ \E ms \in MapOrders(registry) :
        rp' = [rp EXCEPT !.pc = "flush", !.mets = ms, !.i = 1]
    /\ atCopy' = {registry[id] : id \in DOMAIN registry}
    /\ lock' = LockAfterRegistered(LoopThread)
    /\ UNCHANGED <<tickPending, gauge, flushed, reportsActive, nFires, nReports,
                   nReceived, nLogged>>
    /\ UNCHANGED notRep

\* Series: series = append(series, m.Flush(now)...) for the next metric
SeriesFlush ==
    /\ rp.pc = "flush"
    /\ rp.i <= Len(rp.mets)
    /\ LET m == rp.mets[rp.i]
       IN /\ rp' = [rp EXCEPT !.i = @ + 1,
                              !.series = Append(@, [metric |-> m,
                                                    value |-> GaugeValue(gauge, m)])]
          /\ flushed' = flushed \cup {m}
    /\ UNCHANGED <<tickPending, gauge, atCopy, reportsActive, nFires, nReports,
                   nReceived, nLogged>>
    /\ UNCHANGED <<lock, notRep>>

\* Series returns the tagged batch; PostSeries -> post: body, err :=
\* c.marshal(v); if err != nil { return err }
ClientMarshal ==
    /\ rp.pc = "flush"
    /\ rp.i > Len(rp.mets)
    /\ rp' = IF MarshalFails(rp.series)
             THEN [rp EXCEPT !.pc = "returned", !.err = TRUE]
             ELSE [rp EXCEPT !.pc = "http", !.encoded = TRUE]
    /\ reportsActive' = IF MarshalFails(rp.series) THEN reportsActive - 1
                        ELSE reportsActive
    /\ UNCHANGED <<tickPending, gauge, atCopy, flushed, nFires, nReports,
                   nReceived, nLogged>>
    /\ UNCHANGED <<lock, notRep>>

\* post: resp, err := http.Post(...) returns; an error or a status other
\* than 200 and 202 is returned as an error, else nil
ClientPost ==
    /\ rp.pc = "http"
    /\ \E out \in HttpOutcomes :
        rp' = [rp EXCEPT !.pc = "returned", !.resp = out,
                         !.err = (out.failed \/ ~StatusOK(out.status))]
    /\ reportsActive' = reportsActive - 1
    /\ UNCHANGED <<tickPending, gauge, atCopy, flushed, nFires, nReports,
                   nReceived, nLogged>>
    /\ UNCHANGED <<lock, notRep>>

\* Start: if err != nil, log it; then wait for the next tick
StartCheck ==
    /\ rp.pc = "returned"
    /\ rp' = [rp EXCEPT !.pc = StartAfterReport(rp.err)]
    /\ UNCHANGED <<tickPending, gauge, atCopy, flushed, reportsActive, nFires,
                   nReports, nReceived, nLogged>>
    /\ UNCHANGED <<lock, notRep>>

\* Start: log.Printf("Datadog series error: %s", err.Error())
StartLog ==
    /\ rp.pc = "log"
    /\ rp' = [rp EXCEPT !.pc = "wait"]
    /\ nLogged' = nLogged + 1
    /\ UNCHANGED <<tickPending, gauge, atCopy, flushed, reportsActive, nFires,
                   nReports, nReceived>>
    /\ UNCHANGED <<lock, notRep>>

\* the registry calls made while the loop runs
RepCallerNext ==
    \E t \in RepCallers :
        \/ (nOps < MaxRepOps /\ RegisterCall(t))
        \/ RegisterLock(t) \/ RegisterStore(t) \/ RegisterUnlock(t)
        \/ (nOps < MaxRepOps /\ GetCall(t))
        \/ GetLock(t) \/ GetRead(t) \/ GetReturn(t)
        \/ (nOps < MaxRepOps /\ FetchCall(t))
        \/ FetchLock(t) \/ FetchLookup(t) \/ FetchCreate(t) \/ FetchReturn(t)

RepNext ==
    \/ TickerFire
    \/ GaugeFUpdate
    \/ StartReceive
    \/ RegisteredLock
    \/ RegisteredCopy
    \/ SeriesFlush
    \/ ClientMarshal
    \/ ClientPost
    \/ StartCheck
    \/ StartLog
    \/ RepCallerNext

-----------------------------------------------------------------------------
(* The tick arbiter: NewMeter, tickableArbiter.add, tickableArbiter.loop *)

\* the goroutines constructing Meters and Timers
AddThreads == {"c1", "c2", "c3"}

\* the goroutine add spawns
ArbLoop == "loop"

NoMeter == 0

AdIdle == [pc |-> "idle", m |-> NoMeter, started |-> FALSE]

ArbInit ==
    /\ taLock = NoThread
    /\ started = FALSE
    /\ metrics = <<>>
    /\ ad = [t \in AddThreads |-> AdIdle]
    /\ loops = 0
    /\ lp = "wait"
    /\ ticked = <<>>
    /\ nMeters = 0
    /\ nArbTicks = 0

\* NewMeter: m := &Meter{...}; arbiter.add(m) is called
NewMeterCall(t) ==
    /\ ad[t].pc = "idle"
    /\ nMeters < MaxMeters
    /\ nMeters' = nMeters + 1
    /\ ad' = [ad EXCEPT ![t] = [AdIdle EXCEPT !.pc = "lock", !.m = nMeters + 1]]
    /\ ticked' = MapPut(ticked, nMeters + 1, 0)
    /\ UNCHANGED <<taLock, started, metrics, loops, lp, nArbTicks>>
    /\ UNCHANGED notArb

\* add: ta.Lock(); defer ta.Unlock()
AddLock(t) ==
    /\ ad[t].pc = "lock"
    /\ CanLock(taLock)
    /\ taLock' = t
    /\ ad' = [ad EXCEPT ![t].pc = "append"]
    /\ UNCHANGED <<started, metrics, loops, lp, ticked, nMeters, nArbTicks>>
    /\ UNCHANGED notArb

\* add: ta.metrics = append(ta.metrics, m)
AddAppend(t) ==
    /\ ad[t].pc = "append"
    /\ metrics' = Append(metrics, ad[t].m)
    /\ ad' = [ad EXCEPT ![t].pc = "check"]
    /\ UNCHANGED <<taLock, started, loops, lp, ticked, nMeters, nArbTicks>>
    /\ UNCHANGED notArb

\* add: if !ta.started
AddCheck(t) ==
    /\ ad[t].pc = "check"
    /\ ad' = [ad EXCEPT ![t].pc = IF started THEN "unlock" ELSE "start",
                        ![t].started = started]
    /\ UNCHANGED <<taLock, started, metrics, loops, lp, ticked, nMeters, nArbTicks>>
    /\ UNCHANGED notArb

\* add: ta.started = true; go ta.loop()
AddStart(t) ==
    /\ ad[t].pc = "start"
    /\ started' = TRUE
    /\ loops' = loops + 1
    /\ ad' = [ad EXCEPT ![t].pc = "unlock"]
    /\ UNCHANGED <<taLock, metrics, lp, ticked, nMeters, nArbTicks>>
    /\ UNCHANGED notArb

\* add returns, running the deferred ta.Unlock(); NewMeter returns m
AddUnlock(t) ==
    /\ ad[t].pc = "unlock"
    /\ taLock' = NoThread
    /\ ad' = [ad EXCEPT ![t] = [AdIdle EXCEPT !.m = ad[t].m]]
    /\ UNCHANGED <<started, metrics, loops, lp, ticked, nMeters, nArbTicks>>
    /\ UNCHANGED notArb

\* loop: case <-ticker.C: ta.Lock()
LoopLock ==
    /\ loops >= 1
    /\ lp = "wait"
    /\ nArbTicks < MaxArbTicks
    /\ CanLock(taLock)
    /\ taLock' = ArbLoop
    /\ lp' = "tick"
    /\ nArbTicks' = nArbTicks + 1
    /\ UNCHANGED <<started, metrics, ad, loops, ticked, nMeters>>
    /\ UNCHANGED notArb

\* loop: for _, metric := range ta.metrics { metric.tick() }; ta.Unlock()
LoopTick ==
    /\ lp = "tick"
    /\ ticked' = [m \in DOMAIN ticked |->
                    ticked[m] + Cardinality({i \in DOMAIN metrics : metrics[i] = m})]
    /\ taLock' = NoThread
    /\ lp' = "wait"
    /\ UNCHANGED <<started, metrics, ad, loops, nMeters, nArbTicks>>
    /\ UNCHANGED notArb

ArbNext ==
    \/ \E t \in AddThreads :
        \/ NewMeterCall(t) \/ AddLock(t) \/ AddAppend(t) \/ AddCheck(t)
        \/ AddStart(t) \/ AddUnlock(t)
    \/ LoopLock
    \/ LoopTick

-----------------------------------------------------------------------------
(* NewMetricID over names and tags that may hold the separators *)

\* the bytes of tag strings: 'a', 'b', ',' and '|'
TagChars == {97, 98, 44, 124}

\* the tag strings
TagStrings == UNION { [1 .. n -> TagChars] : n \in 0 .. MaxTagLen }

\* the tags arguments
TagLists == UNION { [1 .. n -> TagStrings] : n \in 0 .. MaxTags }

\* the name arguments: "x", "x|" and "y"
NameArgs == {StrX, StrX \o Pipe, StrY}

NoIDs == <<>>

\* the orderings of one tags slice
Orderings(tags) ==
    { p \in [DOMAIN tags -> {tags[i] : i \in DOMAIN tags}] :
        \A s \in {tags[i] : i \in DOMAIN tags} :
            Cardinality({i \in DOMAIN p : p[i] = s})
                = Cardinality({i \in DOMAIN tags : tags[i] = s}) }

\* the arguments are chosen and NewMetricID has not been called
IdStart ==
    /\ given = <<tags1, tags2>>
    /\ ids = NoIDs

\* two metrics, the second with the first's name and tags in some order
OrderInit ==
    /\ name1 \in NameArgs
    /\ tags1 \in TagLists
    /\ name2 = name1
    /\ tags2 \in Orderings(tags1)
    /\ IdStart

\* any two metrics
IdInit ==
    /\ name1 \in NameArgs
    /\ tags1 \in TagLists
    /\ name2 \in NameArgs
    /\ tags2 \in TagLists
    /\ IdStart

\* NewMetricID(name1, tags1) and NewMetricID(name2, tags2): each sorts its
\* tags slice in place and returns the ID
NewMetricIDs ==
    /\ ids = NoIDs
    /\ ids' = <<NewMetricID(name1, tags1), NewMetricID(name2, tags2)>>
    /\ tags1' = SortStrings(tags1)
    /\ tags2' = SortStrings(tags2)
    /\ UNCHANGED <<name1, name2, given>>
    /\ UNCHANGED notId

IdNext == NewMetricIDs

IdAtRest == name1 = StrX /\ tags1 = <<>> /\ name2 = StrX /\ tags2 = <<>> /\ IdStart

-----------------------------------------------------------------------------
(* A Timer and its embedded Meter: Update, Mark, Clear, Snapshot, tick,   *)
(* Flush                                                                    *)

UpdThreads == {"u1", "u2"}
\* the goroutine that calls Mark on a plain meter
MarkThreads == {"u1"}
TickThread == "tick"
FlushThread == "flush"

\* the EWMAs of a meter, in the order Mark and tick visit them
Ewmas == <<"a1", "a5", "a15">>

\* the fields tick() writes, in its order
TickWrites == <<"rate1", "rate5", "rate15", "rateMean">>

\* the fields Flush reads, in the order of its NewSeries calls
FlushReads == <<"rateMean", "rate1", "rate5", "rate15">>

TuIdle == [pc |-> "idle", i |-> 1]
MfIdle == [pc |-> "idle", i |-> 1, got |-> <<>>]

\* a variant of MarkCount that stores 1
MarkCountStoresOne(c, n) == n

\* Mark: atomic.AddInt64(&m.count, n)
MarkCount(c, n) == AtomicAddInt64(c, n)

\* NewCustomTimer has returned
MtrStart ==
    /\ smCount = 0
    /\ mCount = 0
    /\ aUnc = [e \in DOMAIN Ewmas |-> 0]
    /\ mRates = [f \in {"rateMean", "rate1", "rate5", "rate15"} |-> 0]
    /\ mLock = NoThread
    /\ tu = [t \in UpdThreads |-> TuIdle]
    /\ tsn = "idle"
    /\ mt = TuIdle
    /\ mf = MfIdle
    /\ emitted = <<>>
    /\ tmCleared = FALSE
    /\ nTmUpdates = 0
    /\ nTmSnaps = 0
    /\ nMTicks = 0
    /\ nMFlushes = 0

MtrInit == tmFlash \in BOOLEAN /\ MtrStart

\* Timer.Update: t.sample.Update(int64(d)), which counts the value under the
\* sample's mutex
TimerUpdateSample(t) ==
    /\ tu[t].pc = "idle"
    /\ nTmUpdates < MaxTmUpdates
    /\ nTmUpdates' = nTmUpdates + 1
    /\ smCount' = smCount + 1
    /\ tu' = [tu EXCEPT ![t].pc = "count"]
    /\ UNCHANGED <<tmFlash, mCount, aUnc, mRates, mLock, tsn, mt, mf, emitted,
                   tmCleared, nTmSnaps, nMTicks, nMFlushes>>
    /\ UNCHANGED notMtr

\* Timer.Update: t.Mark(1), its atomic.AddInt64(&m.count, n)
TimerMarkCount(t) ==
    /\ tu[t].pc = "count"
    /\ mCount' = MarkCount(mCount, 1)
    /\ tu' = [tu EXCEPT ![t] = [pc |-> "ewma", i |-> 1]]
    /\ UNCHANGED <<tmFlash, smCount, aUnc, mRates, mLock, tsn, mt, mf, emitted,
                   tmCleared, nTmUpdates, nTmSnaps, nMTicks, nMFlushes>>
    /\ UNCHANGED notMtr

\* Mark: m.a1.Update(n), m.a5.Update(n), m.a15.Update(n), one per step; Mark
\* and Timer.Update return after the third
TimerMarkEwma(t) ==
    /\ tu[t].pc = "ewma"
    /\ aUnc' = [aUnc EXCEPT ![tu[t].i] = AtomicAddInt64(@, 1)]
    /\ tu' = [tu EXCEPT ![t] = IF tu[t].i = Len(Ewmas) THEN TuIdle
                                ELSE [pc |-> "ewma", i |-> tu[t].i + 1]]
    /\ UNCHANGED <<tmFlash, smCount, mCount, mRates, mLock, tsn, mt, mf, emitted,
                   tmCleared, nTmUpdates, nTmSnaps, nMTicks, nMFlushes>>
    /\ UNCHANGED notMtr

\* Timer.Clear: t.sample.Clear()
TimerClear ==
    /\ ~tmCleared
    /\ tmCleared' = TRUE
    /\ smCount' = 0
    /\ UNCHANGED <<tmFlash, mCount, aUnc, mRates, mLock, tu, tsn, mt, mf, emitted,
                   nTmUpdates, nTmSnaps, nMTicks, nMFlushes>>
    /\ UNCHANGED notMtr

\* Timer.Snapshot: t.sample.Snapshot() reads the count and the values; a
\* FlashSample goes on to clear itself
TimerSnapshotRead ==
    /\ tsn = "idle"
    /\ nTmSnaps < MaxTmSnaps
    /\ nTmSnaps' = nTmSnaps + 1
    /\ tsn' = IF SnapshotClears(IF tmFlash THEN "Flash" ELSE "ExpDecay")
              THEN "clear" ELSE "idle"
    /\ UNCHANGED <<tmFlash, smCount, mCount, aUnc, mRates, mLock, tu, mt, mf,
                   emitted, tmCleared, nTmUpdates, nMTicks, nMFlushes>>
    /\ UNCHANGED notMtr

\* FlashSample.Snapshot: s.Clear(); return snap
TimerSnapshotClear ==
    /\ tsn = "clear"
    /\ tsn' = "idle"
    /\ smCount' = 0
    /\ UNCHANGED <<tmFlash, mCount, aUnc, mRates, mLock, tu, mt, mf, emitted,
                   tmCleared, nTmUpdates, nTmSnaps, nMTicks, nMFlushes>>
    /\ UNCHANGED notMtr

\* a Timer in use by concurrent goroutines
TimerNext ==
    \/ \E t \in UpdThreads :
        TimerUpdateSample(t) \/ TimerMarkCount(t) \/ TimerMarkEwma(t)
    \/ TimerClear
    \/ TimerSnapshotRead
    \/ TimerSnapshotClear

\* Mark(1) by a user of the meter, as one step per atomic operation
MeterMark(t) == TimerMarkCount(t) \/ TimerMarkEwma(t)

\* Mark is called
MeterMarkCall(t) ==
    /\ tu[t].pc = "idle"
    /\ nTmUpdates < MaxTmUpdates
    /\ nTmUpdates' = nTmUpdates + 1
    /\ tu' = [tu EXCEPT ![t].pc = "count"]
    /\ UNCHANGED <<tmFlash, smCount, mCount, aUnc, mRates, mLock, tsn, mt, mf,
                   emitted, tmCleared, nTmSnaps, nMTicks, nMFlushes>>
    /\ UNCHANGED notMtr

\* the arbiter calls m.tick()
MeterTickCall ==
    /\ mt.pc = "idle"
    /\ nMTicks < MaxMTicks
    /\ nMTicks' = nMTicks + 1
    /\ mt' = [pc |-> "ewma", i |-> 1]
    /\ UNCHANGED <<tmFlash, smCount, mCount, aUnc, mRates, mLock, tu, tsn, mf,
                   emitted, tmCleared, nTmUpdates, nTmSnaps, nMFlushes>>
    /\ UNCHANGED notMtr

\* tick: m.a1.Tick(), m.a5.Tick(), m.a15.Tick(), each draining its uncounted
MeterTickEwma ==
    /\ mt.pc = "ewma"
    /\ aUnc' = [aUnc EXCEPT ![mt.i] = EwmaDrain(@, @)]
    /\ mt' = IF mt.i = Len(Ewmas) THEN [pc |-> "lock", i |-> 1]
             ELSE [pc |-> "ewma", i |-> mt.i + 1]
    /\ UNCHANGED <<tmFlash, smCount, mCount, mRates, mLock, tu, tsn, mf, emitted,
                   tmCleared, nTmUpdates, nTmSnaps, nMTicks, nMFlushes>>
    /\ UNCHANGED notMtr

\* tick: m.lock.Lock(); defer m.lock.Unlock()
MeterTickLock ==
    /\ mt.pc = "lock"
    /\ CanLock(mLock)
    /\ mLock' = TickThread
    /\ mt' = [pc |-> "write", i |-> 1]
    /\ UNCHANGED <<tmFlash, smCount, mCount, aUnc, mRates, tu, tsn, mf, emitted,
                   tmCleared, nTmUpdates, nTmSnaps, nMTicks, nMFlushes>>
    /\ UNCHANGED notMtr

\* tick: m.rate1 = ..., m.rate5 = ..., m.rate15 = ..., m.rateMean = ..., one
\* assignment per step; after the last, the deferred Unlock runs
MeterTickWrite ==
    /\ mt.pc = "write"
    /\ mRates' = [mRates EXCEPT ![TickWrites[mt.i]] = nMTicks]
    /\ IF mt.i = Len(TickWrites)
       THEN /\ mt' = TuIdle
            /\ mLock' = NoThread
       ELSE /\ mt' = [mt EXCEPT !.i = @ + 1]
            /\ UNCHANGED mLock
    /\ UNCHANGED <<tmFlash, smCount, mCount, aUnc, tu, tsn, mf, emitted,
                   tmCleared, nTmUpdates, nTmSnaps, nMTicks, nMFlushes>>
    /\ UNCHANGED notMtr

\* Meter.Flush is called (Timer.Flush makes the same four calls after its
\* snapshot)
MeterFlushCall ==
    /\ mf.pc = "idle"
    /\ nMFlushes < MaxMFlushes
    /\ nMFlushes' = nMFlushes + 1
    /\ mf' = [MfIdle EXCEPT !.pc = "lock"]
    /\ UNCHANGED <<tmFlash, smCount, mCount, aUnc, mRates, mLock, tu, tsn, mt,
                   emitted, tmCleared, nTmUpdates, nTmSnaps, nMTicks>>
    /\ UNCHANGED notMtr

\* RateMean, Rate1, Rate5, Rate15: m.lock.Lock()
MeterRateLock ==
    /\ mf.pc = "lock"
    /\ CanLock(mLock)
    /\ mLock' = FlushThread
    /\ mf' = [mf EXCEPT !.pc = "read"]
    /\ UNCHANGED <<tmFlash, smCount, mCount, aUnc, mRates, tu, tsn, mt, emitted,
                   tmCleared, nTmUpdates, nTmSnaps, nMTicks, nMFlushes>>
    /\ UNCHANGED notMtr

\* RateMean, Rate1, Rate5, Rate15: rate := m.rateN; m.lock.Unlock(); return
\* rate.  Flush returns its series after the fourth.
MeterRateRead ==
    /\ mf.pc = "read"
    /\ mLock' = NoThread
    /\ LET got == Append(mf.got, mRates[FlushReads[mf.i]])
       IN IF mf.i = Len(FlushReads)
          THEN /\ mf' = MfIdle
               /\ emitted' = Append(emitted, got)
          ELSE /\ mf' = [pc |-> "lock", i |-> mf.i + 1, got |-> got]
               /\ UNCHANGED emitted
    /\ UNCHANGED <<tmFlash, smCount, mCount, aUnc, mRates, tu, tsn, mt,
                   tmCleared, nTmUpdates, nTmSnaps, nMTicks, nMFlushes>>
    /\ UNCHANGED notMtr

\* a Meter marked, ticked by the arbiter and flushed by a reporter
MeterNext ==
    \/ \E t \in MarkThreads : MeterMarkCall(t) \/ MeterMark(t)
    \/ MeterTickCall
    \/ MeterTickEwma
    \/ MeterTickLock
    \/ MeterTickWrite
    \/ MeterFlushCall
    \/ MeterRateLock
    \/ MeterRateRead

MtrAtRest == tmFlash = FALSE /\ MtrStart

-----------------------------------------------------------------------------
(* The locks: rep.lock, the arbiter's mutex, each meter's lock, each      *)
(* EWMA's mutex and each sample's mutex, as the calls take and release    *)
(* them.  A call is the sequence of its steps that touch a mutex or a     *)
(* shared collection; timers are made by NewTimer, the library's own      *)
(* constructor.                                                            *)

LkCallers == {"c1"}
LkSeries == "series"
LkLoop == "arbiter"
LkThreads == LkCallers \cup {LkSeries, LkLoop}

\* the metric names the callers use
LkNames == {1, 2}

\* the timers that can come to exist: every call constructs at most one
LkTimers == 1 .. MaxLkCalls

RegistryLock == <<"registry", 0>>
ArbiterLock == <<"arbiter", 0>>
MeterLock(m) == <<"meter", m>>
EwmaLock(e, m) == <<e, m>>
SampleLock(m) == <<"sample", m>>

Locks ==
    {RegistryLock, ArbiterLock}
        \cup {<<k, m>> : k \in {"meter", "a1", "a5", "a15", "sample"}, m \in LkTimers}

LockOp(l) == [op |-> "lock", l |-> l]
UnlockOp(l) == [op |-> "unlock", l |-> l]
StepOp(a) == [op |-> a, l |-> <<>>]

LkIdle == [prog |-> <<>>, name |-> 0, m |-> 0]

\* EWMA.Tick and EWMA.Rate: a.mutex.Lock(); defer a.mutex.Unlock()
EwmaOps(e, m) == <<LockOp(EwmaLock(e, m)), UnlockOp(EwmaLock(e, m))>>

\* a variant of TickOps in which tick() looks the meter up in the registry
TickOpsViaRegistry(m) ==
    <<LockOp(RegistryLock), UnlockOp(RegistryLock)>>

\* Meter.tick: the three Ticks, then the three Rates under m.lock
TickOps(m) ==
    EwmaOps("a1", m) \o EwmaOps("a5", m) \o EwmaOps("a15", m)
        \o <<LockOp(MeterLock(m))>>
        \o EwmaOps("a1", m) \o EwmaOps("a5", m) \o EwmaOps("a15", m)
        \o <<UnlockOp(MeterLock(m))>>

\* Count(), Values() and Update() of a sample: s.mutex.Lock(); defer Unlock
SampleOps(m) == <<LockOp(SampleLock(m)), UnlockOp(SampleLock(m))>>

\* RateMean(), Rate1(), Rate5(), Rate15(): m.lock.Lock(); ...; m.lock.Unlock()
RateOps(m) == <<LockOp(MeterLock(m)), UnlockOp(MeterLock(m))>>

\* Timer.Flush: Snapshot() is s.Count() and s.Values(); then the four rates
FlushOps(m) ==
    SampleOps(m) \o SampleOps(m)
        \o RateOps(m) \o RateOps(m) \o RateOps(m) \o RateOps(m)

\* Timer.Update: t.sample.Update(d); t.Mark(1), which takes no lock
UpdateOps(m) == SampleOps(m) \o <<StepOp("mark")>>

\* NewTimer: NewMeter allocates the meter and calls arbiter.add(m)
NewTimerOps ==
    <<StepOp("new"), LockOp(ArbiterLock), StepOp("add"), UnlockOp(ArbiterLock)>>

\* Fetch: rep.lock.Lock(); defer Unlock; val, ok := rep.registry[id]
FetchOps == <<LockOp(RegistryLock), StepOp("lookup")>>

\* Fetch, after the lookup: on a miss val = fallback(); rep.registry[id] = val
FetchRest(ok) ==
    IF ok THEN <<UnlockOp(RegistryLock)>>
    ELSE NewTimerOps \o <<StepOp("store"), UnlockOp(RegistryLock)>>

\* RegisterTimer: m := NewTimer(...); rep.Register(m)
RegisterOps ==
    NewTimerOps \o <<LockOp(RegistryLock), StepOp("store"), UnlockOp(RegistryLock)>>

\* Get: GetByID locks, reads the map and unlocks
GetOps == <<LockOp(RegistryLock), StepOp("read"), UnlockOp(RegistryLock)>>

\* Series: registered() locks and copies the map
SeriesOps == <<LockOp(RegistryLock), StepOp("copy")>>

\* loop: ta.Lock(); for _, metric := range ta.metrics
LoopOps == <<LockOp(ArbiterLock), StepOp("range")>>

\* the steps of f(m) for every m of ms, in order
RECURSIVE ForEach(_, _)
ForEach(ms, f) ==
    IF ms = <<>> THEN <<>>
    ELSE (IF f = "tick" THEN TickOps(Head(ms)) ELSE FlushOps(Head(ms)))
            \o ForEach(Tail(ms), f)

\* the mutexes a goroutine holds
HeldBy(t) == {l \in Locks : held[l] = t}

\* the step a goroutine is at
NextOp(t) == Head(lk[t].prog)

LkInit ==
    /\ held = [l \in Locks |-> NoThread]
    /\ lk = [t \in LkThreads |-> LkIdle]
    /\ lkRegistry = <<>>
    /\ lkTicking = <<>>
    /\ nLkTimers = 0
    /\ nLkCalls = 0
    /\ nLkPasses = [t \in {LkSeries, LkLoop} |-> 0]

\* a user calls FetchTimer, RegisterTimer or Get with some name
LkRegistryCall(t) ==
    /\ lk[t].prog = <<>>
    /\ nLkCalls < MaxLkCalls
    /\ nLkCalls' = nLkCalls + 1
    /\ \E n \in LkNames, ops \in {FetchOps, RegisterOps, GetOps} :
        lk' = [lk EXCEPT ![t] = [prog |-> ops, name |-> n, m |-> 0]]
    /\ UNCHANGED <<held, lkRegistry, lkTicking, nLkTimers, nLkPasses>>
    /\ UNCHANGED notLk

\* a user calls Update on a registered timer
LkUpdateCall(t) ==
    /\ lk[t].prog = <<>>
    /\ nLkCalls < MaxLkCalls
    /\ nLkCalls' = nLkCalls + 1
    /\ \E n \in DOMAIN lkRegistry :
        lk' = [lk EXCEPT ![t] = [prog |-> UpdateOps(lkRegistry[n]), name |-> n,
                                 m |-> lkRegistry[n]]]
    /\ UNCHANGED <<held, lkRegistry, lkTicking, nLkTimers, nLkPasses>>
    /\ UNCHANGED notLk

\* Report or a user calls Series
LkSeriesCall ==
    /\ lk[LkSeries].prog = <<>>
    /\ nLkPasses[LkSeries] < MaxLkPasses
    /\ nLkPasses' = [nLkPasses EXCEPT ![LkSeries] = @ + 1]
    /\ lk' = [lk EXCEPT ![LkSeries].prog = SeriesOps]
    /\ UNCHANGED <<held, lkRegistry, lkTicking, nLkTimers, nLkCalls>>
    /\ UNCHANGED notLk

\* the arbiter's ticker fires; its loop runs once the first meter was added
LkLoopCall ==
    /\ lk[LkLoop].prog = <<>>
    /\ lkTicking # <<>>
    /\ nLkPasses[LkLoop] < MaxLkPasses
    /\ nLkPasses' = [nLkPasses EXCEPT ![LkLoop] = @ + 1]
    /\ lk' = [lk EXCEPT ![LkLoop].prog = LoopOps]
    /\ UNCHANGED <<held, lkRegistry, lkTicking, nLkTimers, nLkCalls>>
    /\ UNCHANGED notLk

\* Lock() of a sync.Mutex: blocks while another goroutine holds it
LkLock(t) ==
    /\ lk[t].prog # <<>>
    /\ NextOp(t).op = "lock"
    /\ CanLock(held[NextOp(t).l])
    /\ held' = [held EXCEPT ![NextOp(t).l] = t]
    /\ lk' = [lk EXCEPT ![t].prog = Tail(@)]
    /\ UNCHANGED <<lkRegistry, lkTicking, nLkTimers, nLkCalls, nLkPasses>>
    /\ UNCHANGED notLk

\* Unlock()
LkUnlock(t) ==
    /\ lk[t].prog # <<>>
    /\ NextOp(t).op = "unlock"
    /\ held' = [held EXCEPT ![NextOp(t).l] = NoThread]
    /\ lk' = [lk EXCEPT ![t].prog = Tail(@)]
    /\ UNCHANGED <<lkRegistry, lkTicking, nLkTimers, nLkCalls, nLkPasses>>
    /\ UNCHANGED notLk

\* Fetch: val, ok := rep.registry[id]
LkLookup(t) ==
    /\ lk[t].prog # <<>>
    /\ NextOp(t).op = "lookup"
    /\ lk' = [lk EXCEPT ![t].prog = FetchRest(MapHas(lkRegistry, lk[t].name)),
                        ![t].m = MapGet(lkRegistry, lk[t].name)]
    /\ UNCHANGED <<held, lkRegistry, lkTicking, nLkTimers, nLkCalls, nLkPasses>>
    /\ UNCHANGED notLk

\* NewMeter: m := &Meter{...}
LkNew(t) ==
    /\ lk[t].prog # <<>>
    /\ NextOp(t).op = "new"
    /\ nLkTimers' = nLkTimers + 1
    /\ lk' = [lk EXCEPT ![t].prog = Tail(@), ![t].m = nLkTimers + 1]
    /\ UNCHANGED <<held, lkRegistry, lkTicking, nLkCalls, nLkPasses>>
    /\ UNCHANGED notLk

\* add: ta.metrics = append(ta.metrics, m)
LkAdd(t) ==
    /\ lk[t].prog # <<>>
    /\ NextOp(t).op = "add"
    /\ lkTicking' = Append(lkTicking, lk[t].m)
    /\ lk' = [lk EXCEPT ![t].prog = Tail(@)]
    /\ UNCHANGED <<held, lkRegistry, nLkTimers, nLkCalls, nLkPasses>>
    /\ UNCHANGED notLk

\* Register and Fetch: rep.registry[id] = m
LkStore(t) ==
    /\ lk[t].prog # <<>>
    /\ NextOp(t).op = "store"
    /\ lkRegistry' = MapPut(lkRegistry, lk[t].name, lk[t].m)
    /\ lk' = [lk EXCEPT ![t].prog = Tail(@)]
    /\ UNCHANGED <<held, lkTicking, nLkTimers, nLkCalls, nLkPasses>>
    /\ UNCHANGED notLk

\* GetByID: val, ok := rep.registry[id]; Update: Mark(1)
LkRead(t) ==
    /\ lk[t].prog # <<>>
    /\ NextOp(t).op \in {"read", "mark"}
    /\ lk' = [lk EXCEPT ![t].prog = Tail(@),
                        ![t].m = IF NextOp(t).op = "read"
                                 THEN MapGet(lkRegistry, lk[t].name) ELSE @]
    /\ UNCHANGED <<held, lkRegistry, lkTicking, nLkTimers, nLkCalls, nLkPasses>>
    /\ UNCHANGED notLk

\* registered(): the copy of the map, in some order; Series goes on to flush
\* every metric of it after the deferred Unlock
LkCopy ==
    /\ lk[LkSeries].prog # <<>>
    /\ NextOp(LkSeries).op = "copy"
    /\ \E ms \in MapOrders(lkRegistry) :
        lk' = [lk EXCEPT ![LkSeries].prog =
                    <<UnlockOp(RegistryLock)>> \o ForEach(ms, "flush")]
    /\ UNCHANGED <<held, lkRegistry, lkTicking, nLkTimers, nLkCalls, nLkPasses>>
    /\ UNCHANGED notLk

\* loop: every metric of ta.metrics is ticked, then ta.Unlock()
LkRange ==
    /\ lk[LkLoop].prog # <<>>
    /\ NextOp(LkLoop).op = "range"
    /\ lk' = [lk EXCEPT ![LkLoop].prog =
                ForEach(lkTicking, "tick") \o <<UnlockOp(ArbiterLock)>>]
    /\ UNCHANGED <<held, lkRegistry, lkTicking, nLkTimers, nLkCalls, nLkPasses>>
    /\ UNCHANGED notLk

LkNext ==
    \/ \E t \in LkCallers :
        \/ LkRegistryCall(t)
        \/ LkUpdateCall(t)
        \/ LkLookup(t)
        \/ LkNew(t)
        \/ LkAdd(t)
        \/ LkStore(t)
        \/ LkRead(t)
    \/ \E t \in LkThreads : LkLock(t) \/ LkUnlock(t)
    \/ LkSeriesCall
    \/ LkLoopCall
    \/ LkCopy
    \/ LkRange

-----------------------------------------------------------------------------
(* Report over a registry holding a FlashCounter and a Histogram built    *)
(* over a FlashSample; the Start loop is the only caller of Report        *)

HfIdle == [pc |-> "idle", count |-> 0, values |-> <<>>]

\* a variant of CountAfterReport that puts the flushed delta back when the
\* Report failed
CountRestoredOnError(c, flushedCount, err) == IF err THEN c + flushedCount ELSE c

\* Report returns PostSeries' error and Start logs it: nothing is written
\* back to the metrics
CountAfterReport(c, flushedCount, err) == c

\* PostSeries: an error of the request, or a status other than 200 and 202
PostFails(resp) == resp.failed \/ ~StatusOK(resp.status)

FrInit ==
    /\ hsCount = 0
    /\ hsValues = <<>>
    /\ hf = HfIdle
    /\ hsnaps = <<>>
    /\ outcomes = <<>>
    /\ inReport = FALSE
    /\ nFrReports = 0
    /\ nHsUpdates = 0

\* Histogram.Update(v) on the FlashSample: UniformSample.Update; the values
\* are numbered so that they can be told apart
HistUpdate ==
    /\ nHsUpdates < MaxHsUpdates
    /\ nHsUpdates' = nHsUpdates + 1
    /\ hsCount' = UniformCount(hsCount, Len(hsValues), MaxHsSize)
    /\ LET v == nHsUpdates + 1
       IN IF Len(hsValues) < MaxHsSize
          THEN hsValues' = Append(hsValues, v)
          ELSE \E r \in 0 .. MaxHsSize - 1 :
                hsValues' = [hsValues EXCEPT ![r + 1] = v]
    /\ UNCHANGED <<hf, hsnaps, outcomes, inReport, nFrReports>>
    /\ UNCHANGED <<ctrVars, notFr>>

\* Start: rep.Report() is called for a tick; Series copies the registry
FrReportCall ==
    /\ ~inReport
    /\ nFrReports < MaxFrReports
    /\ inReport' = TRUE
    /\ nFrReports' = nFrReports + 1
    /\ UNCHANGED <<hsCount, hsValues, hf, hsnaps, outcomes, nHsUpdates>>
    /\ UNCHANGED <<ctrVars, notFr>>

\* Series: m.Flush(now) of the FlashCounter, in either order with the
\* histogram's
FrFlushCounter ==
    /\ inReport
    /\ hf.pc = "idle"
    /\ \/ Len(reported) < nFrReports /\ FlashFlushRead("loop")
       \/ FlashFlushReturn("loop")

\* Histogram.Flush: Snapshot() of the FlashSample, its s.Count()
HistSnapshotCount ==
    /\ inReport
    /\ fl["loop"].pc = "idle"
    /\ Len(hsnaps) < nFrReports
    /\ hf.pc = "idle"
    /\ hf' = [pc |-> "values", count |-> hsCount, values |-> <<>>]
    /\ UNCHANGED <<hsCount, hsValues, hsnaps, outcomes, inReport, nFrReports,
                   nHsUpdates>>
    /\ UNCHANGED <<ctrVars, notFr>>

\* its s.Values(), a copy
HistSnapshotValues ==
    /\ hf.pc = "values"
    /\ hf' = [hf EXCEPT !.pc = "clear", !.values = hsValues]
    /\ UNCHANGED <<hsCount, hsValues, hsnaps, outcomes, inReport, nFrReports,
                   nHsUpdates>>
    /\ UNCHANGED <<ctrVars, notFr>>

\* FlashSample.Snapshot: s.Clear(); return snap
HistSnapshotClear ==
    /\ hf.pc = "clear"
    /\ hsCount' = 0
    /\ hsValues' = <<>>
    /\ hsnaps' = Append(hsnaps, [count |-> hf.count, values |-> hf.values])
    /\ hf' = HfIdle
    /\ UNCHANGED <<outcomes, inReport, nFrReports, nHsUpdates>>
    /\ UNCHANGED <<ctrVars, notFr>>

\* Report: rep.client.PostSeries(series) returns, and Report with it
FrPost ==
    /\ inReport
    /\ Len(reported) = nFrReports
    /\ Len(hsnaps) = nFrReports
    /\ \E resp \in HttpOutcomes :
        /\ outcomes' = Append(outcomes, PostFails(resp))
        /\ count' = CountAfterReport(count, reported[Len(reported)], PostFails(resp))
    /\ inReport' = FALSE
    /\ UNCHANGED <<hsCount, hsValues, hf, hsnaps, nFrReports, nHsUpdates>>
    /\ UNCHANGED <<ctrKind, fl, incSum, decSum, cleared, reported, nCtrOps>>
    /\ UNCHANGED notFr

FrNext ==
    \/ Inc
    \/ HistUpdate
    \/ FrReportCall
    \/ FrFlushCounter
    \/ HistSnapshotCount
    \/ HistSnapshotValues
    \/ HistSnapshotClear
    \/ FrPost

-----------------------------------------------------------------------------
(* Specifications.  The parts share no variable, so each is checked on   *)
(* its own with the others at rest.                                        *)

CtrAtRest == CtrInit /\ ctrKind = "Counter"
FlashInit == CtrInit /\ ctrKind = "FlashCounter"
SmpAtRest == kind = "Uniform" /\ reservoirSize = 0 /\ SmpStart

Init == RegInit /\ CtrInit /\ SmpInit /\ EwmaInit /\ PctInit /\ RepInit
        /\ ArbInit /\ IdInit /\ MtrInit /\ LkInit /\ FrInit

Next == RegNext \/ CtrNext \/ SmpNext \/ EwmaNext \/ PctNext \/ RepNext
        \/ ArbNext \/ IdNext \/ TimerNext \/ MeterNext \/ LkNext \/ FrNext

Spec == Init /\ [][Next]_vars

OthersAtRest == EwmaInit /\ PctAtRest /\ RepInit /\ ArbInit /\ IdAtRest
RestAtRest == OthersAtRest /\ MtrAtRest /\ LkInit /\ FrInit

RegistryInit == RegInit /\ CtrAtRest /\ SmpAtRest /\ RestAtRest
RegistrySpec == RegistryInit /\ [][RegNext]_vars

CounterInit == RegInit /\ CtrInit /\ SmpAtRest /\ RestAtRest
CounterSpec == CounterInit /\ [][CtrNext]_vars

SampleInit == RegInit /\ CtrAtRest /\ SmpInit /\ RestAtRest
SampleSpec == SampleInit /\ [][SmpNext]_vars

EwmaSpecInit == RegInit /\ CtrAtRest /\ SmpAtRest /\ RestAtRest
EwmaSpec == EwmaSpecInit /\ [][EwmaNext]_vars

StatisticsInit == RegInit /\ CtrAtRest /\ SmpAtRest /\ EwmaInit /\ PctInit /\ RepInit
                  /\ ArbInit /\ IdAtRest /\ MtrAtRest /\ LkInit /\ FrInit
StatisticsSpec == StatisticsInit /\ [][PctNext]_vars

ReporterInit == RegInit /\ CtrAtRest /\ SmpAtRest /\ RestAtRest
ReporterSpec == ReporterInit /\ [][RepNext]_vars

ArbiterInit == RegInit /\ CtrAtRest /\ SmpAtRest /\ RestAtRest
ArbiterSpec == ArbiterInit /\ [][ArbNext]_vars

TagOrderInit == RegInit /\ CtrAtRest /\ SmpAtRest /\ EwmaInit /\ PctAtRest /\ RepInit
                /\ ArbInit /\ OrderInit /\ MtrAtRest /\ LkInit /\ FrInit
TagOrderSpec == TagOrderInit /\ [][IdNext]_vars

MetricIDInit == RegInit /\ CtrAtRest /\ SmpAtRest /\ EwmaInit /\ PctAtRest /\ RepInit
                /\ ArbInit /\ IdInit /\ MtrAtRest /\ LkInit /\ FrInit
MetricIDSpec == MetricIDInit /\ [][IdNext]_vars

RescaleInit == RegInit /\ CtrAtRest /\ ExpDecayInit /\ RestAtRest
RescaleSpec == RescaleInit /\ [][DecayNext]_vars

TimerInit == RegInit /\ CtrAtRest /\ SmpAtRest /\ OthersAtRest /\ MtrInit /\ LkInit
             /\ FrInit
TimerSpec == TimerInit /\ [][TimerNext]_vars

MeterInit == RegInit /\ CtrAtRest /\ SmpAtRest /\ RestAtRest
MeterSpec == MeterInit /\ [][MeterNext]_vars

LocksInit == RegInit /\ CtrAtRest /\ SmpAtRest /\ RestAtRest
LocksSpec == LocksInit /\ [][LkNext]_vars

FlashCounterInit == RegInit /\ FlashInit /\ SmpAtRest /\ RestAtRest
FlashCounterSpec == FlashCounterInit /\ [][FlashNext]_vars

FlushReportInit == RegInit /\ FlashInit /\ SmpAtRest /\ RestAtRest
FlushReportSpec == FlushReportInit /\ [][FrNext]_vars

-----------------------------------------------------------------------------
(* Properties of the registry, checked under RegistrySpec *)

Min2(a, b) == IF a < b THEN a ELSE b

\* C1: concurrent Fetch calls with one name and tag set invoke the fallback
\* once, all return the same metric, and the registry holds that metric
\* under the MetricID (as long as no Register stores under that ID)
C1_FetchCreatesOnce ==
    \A id \in AllIDs :
        /\ fallbackCalls[id] <= 1
        /\ lastRegistered[id] = NoMetric =>
            /\ Cardinality(fetchReturned[id]) <= 1
            /\ fetchReturned[id] # {} =>
                /\ fallbackCalls[id] = 1
                /\ MapHas(registry, id)
                /\ MapGet(registry, id) \in fetchReturned[id]

\* a Fetch has created and returned the metric, a second Fetch with the
\* same tags in another order has found it, and a third one is waiting
C1_Witness ==
    \E t, u, w \in RegThreads :
        /\ t # u /\ u # w /\ t # w
        /\ th[t].pc = "fetch_return" /\ th[t].ok
        /\ th[u].pc = "fetch_lock" /\ th[u].id = th[t].id
        /\ th[w].pc = "idle"
        /\ fetchReturned[th[t].id] = {th[t].val}
        /\ fallbackCalls[th[t].id] = 1
        /\ lastRegistered[th[t].id] = NoMetric
        /\ Len(th[t].tags) = 2

\* the entry of every MetricID Register has stored under is the last
\* metric stored there
C2_RegisteredStays ==
    \A id \in AllIDs :
        lastRegistered[id] # NoMetric =>
            MapHas(registry, id) /\ MapGet(registry, id) = lastRegistered[id]

\* what the steps of Register, Get and Fetch do to the mapping and return
C2_Steps ==
    \A t \in RegThreads :
        \* Register stores m under m's MetricID
        /\ (th[t].pc = "reg_store" /\ th'[t].pc = "reg_unlock") =>
            MapGet(registry', NewMetricID(objs[th[t].val].name,
                                          objs[th[t].val].tags)) = th[t].val
        \* Get returns the registered metric, nil for an ID never registered
        \* or fetched
        /\ (th[t].pc = "get_read" /\ th'[t].pc = "get_return") =>
            LET result == IF th'[t].ok THEN th'[t].val ELSE NoMetric
            IN /\ lastRegistered[th[t].id] # NoMetric =>
                    result = lastRegistered[th[t].id]
               /\ (lastRegistered[th[t].id] = NoMetric
                   /\ fallbackCalls[th[t].id] = 0) => result = NoMetric
        \* Get never changes the mapping
        /\ (th[t].pc \in {"get_lock", "get_read", "get_return"}
            /\ th'[t] # th[t]) => registry' = registry
        /\ (th[t].pc = "idle" /\ th'[t].pc = "get_lock") => registry' = registry
        \* Fetch returns the registered metric without calling the fallback
        /\ (th[t].pc = "fetch_lookup" /\ th'[t] # th[t]
            /\ lastRegistered[th[t].id] # NoMetric) =>
            /\ th'[t].pc = "fetch_return"
            /\ th'[t].val = lastRegistered[th[t].id]
            /\ fallbackCalls' = fallbackCalls

\* C2: Register(m) stores m under m's MetricID, replacing the entry; Get
\* and Fetch then return m, Fetch without calling its fallback, until the
\* next Register for that ID; Get returns nil for an ID never registered or
\* fetched and never changes the mapping
C2_RegisterOverwrites == []C2_RegisteredStays /\ [][C2_Steps]_vars

\* two metrics with one MetricID were registered one after the other, and
\* a Get has read the second
C2_Witness ==
    \E t \in RegThreads, o1, o2 \in DOMAIN objs :
        /\ o1 < o2
        /\ \A id \in AllIDs : fallbackCalls[id] = 0
        /\ \A u \in RegThreads : th[u].pc \notin {"reg_lock", "reg_store", "reg_unlock"}
        /\ NewMetricID(objs[o1].name, objs[o1].tags) = th[t].id
        /\ NewMetricID(objs[o2].name, objs[o2].tags) = th[t].id
        /\ th[t].pc = "get_return" /\ th[t].ok
        /\ th[t].val = lastRegistered[th[t].id]

-----------------------------------------------------------------------------
(* Properties of the counters, checked under CounterSpec *)

\* C3: under any interleaving of Inc and Dec on a Counter, Count() is the
\* sum of the Inc amounts minus the sum of the Dec amounts
C3_CounterSum ==
    (ctrKind = "Counter" /\ ~cleared) => count = incSum - decSum

\* increments and a decrement have been applied
C3_Witness ==
    /\ ctrKind = "Counter" /\ ~cleared
    /\ incSum = 3 /\ decSum = 1 /\ count = 2
    /\ nCtrOps >= 3

\* the values flushed so far plus Count() are the net sum of Inc and Dec
C4_Conservation ==
    (ctrKind = "FlashCounter" /\ ~cleared) =>
        SeqSum(reported) + count = incSum - decSum

\* a Flush returns the value it read and subtracts it; when the counter
\* still holds that value, it is left at 0
C4_FlushStep ==
    \A t \in FlushThreads :
        (fl[t].pc = "dec" /\ fl'[t].pc = "idle") =>
            /\ reported' = Append(reported, fl[t].count)
            /\ count' = count - fl[t].count
            /\ count = fl[t].count => count' = 0

\* C4: FlashCounter.Flush reports the value it read and subtracts exactly
\* that; flushed values plus Count() always equal the net sum of Inc and
\* Dec; a Flush nothing interleaves with leaves Count() at 0
C4_FlushConserves == []C4_Conservation /\ [][C4_FlushStep]_vars

\* one Flush has returned and during a second one the counter has changed
\* since it was read
C4_Witness ==
    \E t \in FlushThreads :
        /\ ctrKind = "FlashCounter" /\ ~cleared
        /\ reported # <<>> /\ reported[1] > 0
        /\ fl[t].pc = "dec" /\ fl[t].count # count

-----------------------------------------------------------------------------
(* Properties of the samples, checked under SampleSpec *)

\* C5: no sample retains more values than its reservoir size
C5_WithinCapacity ==
    /\ Len(heap) <= reservoirSize
    /\ values.len <= reservoirSize
    /\ Len(SampleValues) <= reservoirSize

\* an ExpDecaySample that was full has taken an update past the rescale
\* threshold
C5_Witness ==
    /\ kind = "ExpDecay" /\ nClears = 0
    /\ reservoirSize >= 1
    /\ sampleCount > reservoirSize
    /\ Len(heap) = reservoirSize
    /\ t0 > 0

\* C6: a UniformSample never cleared has Count() = N and Size() = min(N, C)
\* after N updates; for every sample len(Values()) = Size() in one state
C6_UniformCountSize ==
    /\ (kind = "Uniform" /\ nClears = 0) =>
        /\ SampleCountOf = nUpdates
        /\ SampleSize = Min2(nUpdates, reservoirSize)
    /\ Len(SampleValues) = SampleSize

\* a UniformSample has taken more updates than it retains
C6_Witness ==
    /\ kind = "Uniform" /\ nClears = 0
    /\ reservoirSize >= 1
    /\ nUpdates > reservoirSize
    /\ SampleSize = reservoirSize
    /\ SampleCountOf = nUpdates

\* C7 as claimed: Count() gets smaller only in a caller's Clear()
C7_OnlyCallerClear ==
    [][sampleCount' < sampleCount => nClears' = nClears + 1]_vars

\* C7 as amended: Count() gets smaller only in a Clear(), the caller's or
\* the one FlashSample.Snapshot makes, which leaves count 0 and the
\* reservoir empty; nothing else, and no Snapshot of the other samples,
\* decreases it
C7_OnlyClear ==
    [][sampleCount' < sampleCount =>
        /\ \/ nClears' = nClears + 1
           \/ /\ kind = "Flash"
              /\ \E t \in SnapThreads : sn[t].pc = "clear" /\ sn'[t].pc = "idle"
        /\ sampleCount' = 0
        /\ SampleSize' = 0]_vars

\* a FlashSample's Snapshot has returned a positive count and left the
\* sample's count at 0, without any Clear by a caller
C7_Witness ==
    /\ kind = "Flash" /\ nClears = 0
    /\ snaps # <<>> /\ snaps[1].count > 0
    /\ sampleCount = 0

\* C8 as claimed: every snapshot of a UniformSample or ExpDecaySample never
\* cleared has Size() = min(Count(), capacity)
C8_SnapshotOneInstant ==
    (kind \in {"Uniform", "ExpDecay"} /\ nClears = 0) =>
        \A i \in DOMAIN snaps :
            SnapshotSize(snaps[i]) = Min2(SnapshotCountOf(snaps[i]), reservoirSize)

\* what the snapshots returned so far report
SnapStats == [i \in DOMAIN snaps |-> SnapshotStats(snaps[i])]

\* C9: whatever the sample does next, a returned snapshot stays and reports
\* the same Count, Size, Min, Max, Sum, Mean and percentiles
C9_SnapshotFrozen ==
    [][\A i \in DOMAIN snaps :
        i \in DOMAIN snaps' /\ SnapStats'[i] = SnapStats[i]]_vars

\* a snapshot holds a value, and the sample has been updated since and
\* retains other values
C9_Witness ==
    \E i \in DOMAIN snaps :
        /\ kind \in {"Uniform", "Flash"}
        /\ snaps[i].len >= 1
        /\ reservoirSize = snaps[i].len
        /\ sampleCount > snaps[i].count
        /\ SampleValues # SnapshotValuesOf(snaps[i])
        /\ Len(SampleValues) = snaps[i].len

RECURSIVE SnapCountSum(_)
SnapCountSum(ss) ==
    IF ss = <<>> THEN 0 ELSE SnapshotCountOf(Head(ss)) + SnapCountSum(Tail(ss))

\* C10 as claimed: the counts of a FlashSample's snapshots plus its live
\* Count() are the number of Update calls
C10_FlashCountsEveryUpdate ==
    (kind = "Flash" /\ nClears = 0) =>
        SnapCountSum(snaps) + sampleCount = nUpdates

-----------------------------------------------------------------------------
(* Properties of the EWMA, checked under EwmaSpec *)

\* C11: with one ticker and concurrent Updates, the counts the Ticks have
\* drained plus the accumulator are the sum of all n passed to Update, and
\* the accumulator is never negative when no n was
C11_TickDrainsExactly ==
    /\ drained + uncounted = updSum
    /\ ~negSeen => uncounted >= 0

\* an Update has come between a Tick's load and its drain, after an
\* earlier Tick drained events
C11_Witness ==
    /\ tk.pc = "drain"
    /\ uncounted > tk.count
    /\ drained > 0
    /\ ~negSeen

\* what the last step of a Tick does to the rate
C12_RateStep ==
    (tk.pc = "rate" /\ tk'.pc = "idle") =>
        LET e == rate.exp + 1
            inst == tk.count * Pow(AlphaDen, e)
        IN /\ ~init => EwmaRate(rate') = <<tk.count, TickSeconds>>
           /\ init => AlphaDen * RateAt(rate', e) =
                        AlphaDen * RateAt(rate, e)
                            + AlphaNum * (inst - RateAt(rate, e))
           /\ (init /\ tk.count = 0) =>
                /\ AlphaDen * RateAt(rate', e) =
                        (AlphaDen - AlphaNum) * RateAt(rate, e)
                /\ rate.num > 0 => (rate'.num > 0 /\ RateLess(rate', rate))
                /\ rate.num >= 0 => rate'.num >= 0

\* C12: the first Tick sets the rate to drained/5 per second; a later Tick
\* moves it by alpha times its distance to the instant rate, so a Tick
\* that drained nothing multiplies it by 1 - alpha: a positive rate gets
\* strictly smaller and stays positive
C12_RateRule == [][C12_RateStep]_vars

\* Update(3) and one Tick gave 3/5, and two more Ticks with no update
\* have decayed it to 3/5 * (23/25)^2
C12_Witness ==
    /\ updSum = 3 /\ nEwUpdates = 1
    /\ nTicks = 3 /\ tk.pc = "idle"
    /\ EwmaRate(rate) = <<3 * 23 * 23, 5 * 25 * 25>>

-----------------------------------------------------------------------------
(* Properties of the snapshot statistics, checked under StatisticsSpec *)

\* the number of times v occurs in vs
Occurrences(vs, v) == Cardinality({i \in DOMAIN vs : vs[i] = v})

\* C13: Percentiles sorts the values ascending and, with pos = p * (n + 1),
\* returns the minimum for pos < 1, the maximum for pos >= n, and else the
\* floor neighbour plus the fraction of pos times the step to the next
\* one; every score lies between Min() and Max(); over 1..5 the median is
\* 3 and p75 lies between 4 and 5; an empty snapshot reports 0 everywhere
C13_PercentileRule ==
    LET n == Len(ssValues)
    IN /\ ssPs # <<>> =>
            /\ DOMAIN ssScores = DOMAIN ssPs
            /\ \A v \in StatValues :
                    Occurrences(ssValues, v) = Occurrences(ssGiven, v)
            /\ \A i \in 1 .. n - 1 : ssValues[i] <= ssValues[i + 1]
            /\ \A i \in DOMAIN ssPs :
                LET pos100 == ssPs[i] * (n + 1)
                    k == pos100 \div 100
                IN IF n = 0 THEN ssScores[i] = 0
                   ELSE /\ pos100 < 100 => ssScores[i] = 100 * ssValues[1]
                        /\ pos100 >= 100 * n => ssScores[i] = 100 * ssValues[n]
                        /\ (pos100 >= 100 /\ pos100 < 100 * n) =>
                            ssScores[i] = 100 * ssValues[k]
                                + (pos100 - 100 * k) * (ssValues[k + 1] - ssValues[k])
                        /\ 100 * SnapshotMin(ssGiven) <= ssScores[i]
                        /\ ssScores[i] <= 100 * SnapshotMax(ssGiven)
            /\ (ssValues = <<1, 2, 3, 4, 5>> /\ ssPs = FlushPercentiles) =>
                /\ ssScores[1] = 300
                /\ 400 < ssScores[2] /\ ssScores[2] < 500
       /\ (ssStats.called /\ n = 0) =>
            /\ ssStats.min = 0 /\ ssStats.max = 0 /\ ssStats.sum = 0
            /\ ssStats.mean[1] = 0 /\ ssStats.stdDevIsZero
       /\ (ssStats.called /\ n > 0) =>
            /\ \A i \in DOMAIN ssGiven :
                    ssStats.min <= ssGiven[i] /\ ssGiven[i] <= ssStats.max
            /\ \E i, j \in DOMAIN ssGiven :
                    ssStats.min = ssGiven[i] /\ ssStats.max = ssGiven[j]

\* an unsorted snapshot of 1..5 has returned median 3, p75 = 4.5 and the
\* maximum for p95 and p99
C13_Witness ==
    /\ ssGiven = <<5, 3, 1, 4, 2>>
    /\ ssPs = FlushPercentiles
    /\ ssScores = <<300, 450, 500, 500>>
    /\ ssStats.called

\* an empty snapshot has reported its statistics and percentiles
C13_WitnessEmpty ==
    /\ ssGiven = <<>>
    /\ ssPs = FlushPercentiles
    /\ ssScores = <<0, 0, 0, 0>>
    /\ ssStats.called

-----------------------------------------------------------------------------
(* Failures of Update, checked under SampleSpec *)

\* C14 as claimed: for every reservoir size from 0 on and every value, no
\* Update on an ExpDecaySample, UniformSample or FlashSample panics
C14_UpdateNeverPanics == ~panicked

-----------------------------------------------------------------------------
(* Properties of the reporter loop, checked under ReporterSpec *)

\* C15 as claimed: Report returns an error exactly when the request failed
\* or the response was neither 200 nor 202
C15_ErrorIffRequestFails ==
    rp.pc = "returned" =>
        (rp.err <=> (rp.resp.made
                     /\ (rp.resp.failed \/ rp.resp.status \notin {200, 202})))

\* Report returns an error exactly when the batch cannot be encoded, the
\* request failed, or the response was neither 200 nor 202
C15_ErrorCauses ==
    rp.pc = "returned" =>
        (rp.err <=> \/ \E i \in DOMAIN rp.series : rp.series[i].value = NaN
                    \/ rp.resp.made /\ rp.resp.failed
                    \/ rp.resp.made /\ rp.resp.status \notin {200, 202})

\* no step of Start, Report, Series or Client.post changes the registry
C15_ReportKeepsRegistry == rp' # rp => registry' = registry

\* C15 as amended: Report returns an error exactly when PostSeries fails -
\* encoding error, request error or a status other than 200 and 202 - and
\* nil otherwise; no step of Report changes the registry's mapping
C15_ErrorIffPostFails == []C15_ErrorCauses /\ [][C15_ReportKeepsRegistry]_vars

\* a Report over a registered gauge holding NaN has returned an error
\* without any request made
C15_Witness ==
    /\ rp.pc = "returned" /\ rp.err
    /\ ~rp.resp.made
    /\ Len(rp.series) >= 1
    /\ registry # <<>>

\* the loop is running, one Report at a time, one Report for each tick
\* received, and a tick in the channel is received as soon as the loop
\* waits
C16_LoopState ==
    /\ rp.pc # "stopped"
    /\ reportsActive <= 1
    /\ reportsActive = 1 <=> rp.pc \in {"registered", "copy", "flush", "http"}
    /\ nReports = nReceived
    /\ nReceived <= nFires
    /\ (rp.pc = "wait" /\ tickPending) => ENABLED StartReceive

\* after a Report the loop logs the error, if any, and waits; a Report
\* starts only by receiving a tick
C16_LoopSteps ==
    /\ (rp.pc = "returned" /\ rp' # rp) =>
            /\ rp'.pc = IF rp.err THEN "log" ELSE "wait"
            /\ nReports' = nReports
    /\ (rp.pc = "log" /\ rp' # rp) => (rp'.pc = "wait" /\ nReports' = nReports)
    /\ nReports' # nReports =>
            /\ rp.pc = "wait" /\ tickPending /\ ~tickPending'
            /\ nReports' = nReports + 1
            /\ reportsActive = 0

\* C16: a Report that returns an error does not end the Start loop and
\* causes no Report of its own; the loop reports once for each tick it
\* receives, one Report at a time
C16_LoopSurvivesErrors == []C16_LoopState /\ [][C16_LoopSteps]_vars

\* after a Report failed and was logged, the next tick has started the
\* next Report
C16_Witness ==
    /\ nLogged = 1
    /\ nReports = 2
    /\ rp.pc = "registered"

\* C17: the loop holds rep.lock only while registered() copies the list;
\* during the flushes and the request the lock is free for Register, Fetch
\* and Get, and only the metrics copied are flushed
C17_LockOnlyForCopy ==
    /\ lock = LoopThread <=> rp.pc = "copy"
    /\ rp.pc \in {"flush", "http"} => lock # LoopThread
    /\ flushed \subseteq atCopy
    /\ \A t \in RepCallers :
        (rp.pc \in {"flush", "http"} /\ lock = NoThread) =>
            /\ th[t].pc = "reg_lock" => ENABLED RegisterLock(t)
            /\ th[t].pc = "get_lock" => ENABLED GetLock(t)
            /\ th[t].pc = "fetch_lock" => ENABLED FetchLock(t)

\* while the request is in progress a Register has completed, and its
\* metric was not flushed in this cycle
C17_Witness ==
    \E t \in RepCallers, id \in DOMAIN registry :
        /\ rp.pc = "http"
        /\ atCopy # {} /\ flushed = atCopy
        /\ registry[id] \notin atCopy
        /\ lastRegistered[id] = registry[id]
        /\ th[t].pc = "idle"
        /\ lock = NoThread

-----------------------------------------------------------------------------
(* Properties of the tick arbiter, checked under ArbiterSpec *)

\* the meters whose add has appended
Added ==
    {m \in 1 .. nMeters :
        ~\E t \in AddThreads : ad[t].m = m /\ ad[t].pc \in {"lock", "append"}}

\* one loop at most, running exactly when started is set; every meter
\* whose add has appended is in the list once, and nothing else is
C18_ArbiterState ==
    /\ loops <= 1
    /\ started <=> loops = 1
    /\ \A m \in Added : Cardinality({i \in DOMAIN metrics : metrics[i] = m}) = 1
    /\ \A i \in DOMAIN metrics : metrics[i] \in Added
    /\ (\A t \in AddThreads : ad[t].pc = "idle") =>
            /\ Len(metrics) = nMeters
            /\ nMeters >= 1 => loops = 1

\* started stays set, the list only grows, and the add that spawns the
\* loop is the one that appended the first metric
C18_ArbiterSteps ==
    /\ started => started'
    /\ Len(metrics') >= Len(metrics)
    /\ SubSeq(metrics', 1, Len(metrics)) = metrics
    /\ loops' # loops =>
            /\ loops = 0 /\ loops' = 1
            /\ \E t \in AddThreads : ad[t].pc = "start" /\ metrics = <<ad[t].m>>

\* C18: however many Meters and Timers are constructed concurrently, the
\* arbiter's loop is spawned once, by the first add, started never goes
\* back to false, and every constructed metric is in the list exactly once
C18_LoopSpawnedOnce == []C18_ArbiterState /\ [][C18_ArbiterSteps]_vars

\* three goroutines have constructed meters concurrently, the second add
\* waited for the first, and the loop has ticked the meters
C18_Witness ==
    /\ nMeters = 3
    /\ \A t \in AddThreads : ad[t].pc = "idle" /\ ad[t].m # NoMeter
    /\ Len(metrics) = 3
    /\ loops = 1 /\ started
    /\ nArbTicks >= 1
    /\ \E m \in DOMAIN ticked : ticked[m] >= 1

-----------------------------------------------------------------------------
(* Properties of NewMetricID, checked under TagOrderSpec and MetricIDSpec *)

\* the set of tags in a slice
TagSet(tags) == {tags[i] : i \in DOMAIN tags}

\* C19: for one name and two orderings of the same tags NewMetricID
\* returns equal IDs, so the two metrics share one registry entry
C19_TagOrderInsensitive ==
    (/\ ids # NoIDs
     /\ name1 = name2
     /\ given[2] \in Orderings(given[1])) =>
        /\ ids[1] = ids[2]
        /\ DOMAIN MapPut(MapPut(<<>>, ids[1], 1), ids[2], 2) = {ids[1]}

\* the IDs of "x" with tags ["b", "a"] and with tags ["a", "b"] have been
\* computed
C19_Witness ==
    /\ ids # NoIDs
    /\ name1 = StrX /\ name2 = StrX
    /\ given = << <<StrB, StrA>>, <<StrA, StrB>> >>
    /\ ids[1] = ids[2]

\* C20 as claimed: two metrics whose names differ or whose tag sets differ
\* get different MetricIDs, so registering one never replaces the other
C20_UniqueIDs ==
    (/\ ids # NoIDs
     /\ (name1 # name2 \/ TagSet(given[1]) # TagSet(given[2]))) =>
        /\ ids[1] # ids[2]
        /\ Cardinality(DOMAIN MapPut(MapPut(<<>>, ids[1], 1), ids[2], 2)) = 2

-----------------------------------------------------------------------------
(* Admission into a full UniformSample, checked under SampleSpec *)

\* the values a UniformSample retains, in slot order
Retained == SliceElems(store, values)

\* C21 as claimed: an Update on a full reservoir follows Algorithm R, it
\* replaces a slot only when the r drawn from [0, Count()) falls below the
\* capacity; so once Count() exceeds the capacity, Update(v) can leave the
\* retained values as they are, for a v the reservoir does not hold too
C21_AlgorithmR ==
    (/\ kind \in {"Uniform", "Flash"}
     /\ ~panicked
     /\ nUpdates < MaxUpdates
     /\ reservoirSize > 0
     /\ values.len = reservoirSize) =>
        \A v \in UpdateValues :
            ENABLED (UniformUpdateOf(v) /\ Retained' = Retained)

-----------------------------------------------------------------------------
(* The rescale of an ExpDecaySample, checked under RescaleSpec *)

\* the ways to pair the n items of one heap with the n items of another
Pairings(n) == { p \in [1 .. n -> 1 .. n] : \A i, j \in 1 .. n : p[i] = p[j] => i = j }

\* h2 holds the items of h, and of any two the one with the strictly larger
\* key in h has the strictly larger key in h2
OrderKept(h, h2) ==
    /\ Len(h2) = Len(h)
    /\ \E p \in Pairings(Len(h)) :
        /\ \A i \in 1 .. Len(h) : h2[p[i]].v = h[i].v
        /\ \A i, j \in 1 .. Len(h) : h[i].k > h[j].k => h2[p[i]].k > h2[p[j]].k

\* C22 as claimed: an update that arrives after the rescale threshold resets
\* t0 and multiplies every retained key by one positive factor, so of any two
\* retained items the one with the larger key keeps the larger key
C22_RescaleStep ==
    (nUpdates' = nUpdates + 1 /\ t0' # t0) =>
        \A v \in UpdateValues, k \in Priorities :
            LET h == ExpDecayInsert(heap, reservoirSize, [k |-> k, v |-> v])
            IN heap' = RescaleInto(<<>>, h) => OrderKept(h, heap')

C22_RescaleKeepsOrder == [][C22_RescaleStep]_vars

-----------------------------------------------------------------------------
(* The coupling of a Timer's sample and meter, checked under TimerSpec *)

\* no Timer.Update is in progress
NoUpdateInProgress == \A t \in UpdThreads : tu[t].pc = "idle"

-----------------------------------------------------------------------------
(* The rates of one Flush, checked under MeterSpec *)

\* C24 as claimed: the four rates a Flush emits were all written by one and
\* the same tick() (or all precede the first tick), under any interleaving of
\* Flush with the arbiter's tick pass
C24_FlushOneInstant ==
    \A b \in DOMAIN emitted :
        \A i, j \in DOMAIN emitted[b] : emitted[b][i] = emitted[b][j]

-----------------------------------------------------------------------------
(* Freedom from deadlock, checked under LocksSpec *)

\* registry lock -> arbiter lock -> meter lock -> EWMA mutex; a sample's
\* mutex is outside the order
LockRank(l) ==
    CASE l[1] = "registry" -> 1
      [] l[1] = "arbiter" -> 2
      [] l[1] = "meter" -> 3
      [] l[1] \in {"a1", "a5", "a15"} -> 4
      [] OTHER -> 0

\* the goroutine is about to take a mutex
Locking(t) == lk[t].prog # <<>> /\ NextOp(t).op = "lock"

\* the goroutine is blocked in Lock()
Waiting(t) == Locking(t) /\ held[NextOp(t).l] # NoThread

\* every Lock() is of a mutex later in the order than all the goroutine
\* holds, and a sample's mutex is never held together with another
LockOrder ==
    \A t \in LkThreads :
        Locking(t) =>
            \A l \in HeldBy(t) :
                /\ LockRank(l) # 0
                /\ LockRank(NextOp(t).l) # 0
                /\ LockRank(l) < LockRank(NextOp(t).l)

\* no set of goroutines in which each waits for a mutex another one holds
NoWaitCycle ==
    \A S \in SUBSET LkThreads :
        S # {} => \E t \in S : ~(Waiting(t) /\ held[NextOp(t).l] \in S)

\* a mutex is held only by a goroutine inside a call, and a goroutine inside
\* a call can take a step unless the mutex it wants is held
NoLockLeft ==
    \A l \in Locks : held[l] # NoThread => lk[held[l]].prog # <<>>

\* C25: locks are taken in the order registry, arbiter, meter, EWMA; no set of
\* goroutines wait on each other; and whenever a call is in progress, some
\* goroutine inside a call can take its next step
C25_NoDeadlock ==
    /\ LockOrder
    /\ NoWaitCycle
    /\ NoLockLeft
    /\ (\E t \in LkThreads : lk[t].prog # <<>>) =>
            \E t \in LkThreads : lk[t].prog # <<>> /\ ~Waiting(t)

\* Fetch holds the registry lock and waits in NewMeter for the arbiter's
\* mutex, which the loop holds together with a meter's lock and an EWMA's
\* mutex, while Series waits for the registry lock
C25_Witness ==
    /\ held[RegistryLock] \in LkCallers
    /\ Waiting(held[RegistryLock])
    /\ NextOp(held[RegistryLock]).l = ArbiterLock
    /\ held[ArbiterLock] = LkLoop
    /\ \E m \in LkTimers : held[MeterLock(m)] = LkLoop /\ held[EwmaLock("a5", m)] = LkLoop
    /\ Waiting(LkSeries)

-----------------------------------------------------------------------------
(* A FlashCounter that only grows, checked under FlashCounterSpec *)

\* C26 as claimed: with amounts that are not negative and no Dec, Count() is
\* never negative, no Flush reports a negative value, and no increment is
\* reported twice (the flushed values never add up to more than was
\* incremented), also when two flushes of the counter overlap
C26_NeverNegativeNorTwice ==
    /\ count >= 0
    /\ \A i \in DOMAIN reported : reported[i] >= 0
    /\ SeqSum(reported) <= incSum

-----------------------------------------------------------------------------
(* The inputs of NewMetricID, checked under MetricIDSpec *)

\* C27 as claimed: after NewMetricID the tags slice passed in holds the same
\* elements in the same order as before the call
C27_TagsUntouched ==
    ids # NoIDs => (tags1 = given[1] /\ tags2 = given[2])

-----------------------------------------------------------------------------
(* What a failed Report leaves behind, checked under FlushReportSpec *)

\* the values of a sequence
Range(f) == {f[i] : i \in DOMAIN f}

\* whatever the Reports returned: every increment is in exactly one flushed
\* count or still in the counter, and a value a histogram snapshot carried
\* is neither in a later snapshot nor back in the sample
C28_FlushedOnce ==
    /\ SeqSum(reported) + count = incSum
    /\ \A i \in DOMAIN hsnaps :
        /\ Range(hsnaps[i].values) \cap Range(hsValues) = {}
        /\ \A j \in DOMAIN hsnaps :
            i # j => Range(hsnaps[i].values) \cap Range(hsnaps[j].values) = {}

\* the step in which Report returns writes nothing back, error or not
C28_ReportReturns ==
    Len(outcomes') > Len(outcomes) =>
        /\ count' = count
        /\ hsCount' = hsCount
        /\ hsValues' = hsValues
        /\ reported' = reported
        /\ hsnaps' = hsnaps

\* C28: when Report fails, what its batch flushed from the FlashCounter and
\* from the FlashSample-backed histogram is not restored and is in no later
\* batch; the next Report carries only what arrived after the failed flush
C28_FlushConsumed == []C28_FlushedOnce /\ [][C28_ReportReturns]_vars

\* a Report that flushed an increment and a histogram value has failed, and
\* the next Report has flushed only the increment and the value that
\* arrived after it
C28_Witness ==
    /\ Len(outcomes) = 2
    /\ outcomes[1]
    /\ incSum = 3
    /\ reported = <<1, 2>>
    /\ count = 0
    /\ hsnaps = <<[count |-> 1, values |-> <<1>>], [count |-> 1, values |-> <<2>>]>>

====
